---------------------------- MODULE Spec2Model ----------------------------
(***************************************************************************)
(* Model of the infravelo-radnetz pipeline: TILDA attribute translation,   *)
(* directional snapping, segment merging and final aggregation.            *)
(*                                                                         *)
(* Data frames are sequences of rows; a row is a function from column      *)
(* names to cells.  A cell is None (<<>>), NaN, or Some(v) = <<v>> where v *)
(* is a string, a boolean or a number.  Widths (breite) are integers in    *)
(* tenths of a metre, lengths are integers in metres.                      *)
(***************************************************************************)
EXTENDS Integers, Sequences, FiniteSets, TLC

VARIABLES
    pc,               \* the stage of the pipeline that runs next
    gdf_in,           \* the raw TILDA files: data source -> rows
    translated,       \* the translated files: data source -> rows
    retranslated,     \* the translated files put through the translator again
    osm,              \* matched_tilda_ways: the combined translated rows
    net_segmented,    \* the network cut into segments
    seg_idx,          \* the number of segments the snapping loop has processed
    snapped_records,  \* the variants the snapping loop has produced
    out_gdf,          \* the output of the snapping stage
    result_gdf,       \* the aggregated edges
    layers,           \* the layers written by the aggregation stage
    net,              \* the enriched network the snapping stage is given
    combined_gdf,     \* the combined network the stitcher filters and saves
    pool,             \* the worker pool of the snapping stage
    log_candidates,   \* whether the run writes the log of the candidates
    disk,             \* the intermediate and output files of the snapping stage
    exit_status,      \* the exit status of the last program, -1 while it runs
    manual,           \* the matching stage at its step of the manual interventions
    previous_records, \* the variants of the previous run on the same data
    matcher,          \* the matching stage at its search for the ways in the buffer
    edges_frame,      \* the frame the district assignment was called with, after the call
    elem              \* the run of assign_element_numbers

\* the state of a run of the snapping stage besides its data frames
pool_vars == <<pool, log_candidates>>
disk_vars == <<disk, exit_status>>
more_vars == <<previous_records, matcher, edges_frame, elem>>
stage_vars == <<manual, more_vars>>
run_vars == <<net, combined_gdf, pool, log_candidates, disk, exit_status, manual, more_vars>>

vars == <<pc, gdf_in, translated, retranslated, osm, net_segmented, seg_idx,
          snapped_records, out_gdf, result_gdf, layers, net, combined_gdf, pool,
          log_candidates, disk, exit_status, manual, more_vars>>

-----------------------------------------------------------------------------
(* Python values and string operations                                     *)

None == <<>>
NaN == <<"nan", "float">>
Some(v) == <<v>>
Val(c) == c[1]

\* the output directory before the first run
NoCache == [seg |-> None, seg_attr |-> None, out |-> None,
            buffered |-> [buffer_meters \in {15, 25} |-> None],
            in_buffering |-> [output_prefix \in {"bikelanes", "streets", "paths"} |-> None]]

\* the matching stage before it has read anything
NoMatcher == [vorrangnetz_gdf |-> <<>>, osm_files |-> <<>>, source |-> 0,
              unified_buffer |-> None, matched_gdf |-> <<>>]

\* no run of the matching stage
NoMatching == [osm_gdf |-> <<>>, matched_gdf_step1 |-> <<>>, matched_gdf |-> <<>>,
               exclude_ways |-> None, include_ways |-> None,
               skip_manual_interventions |-> TRUE, manual_interventions |-> None]

\* a pool no batch has been handed to
IdlePool == [handed |-> 0, running |-> {}, outqueue |-> <<>>, yielded |-> 0]

\* assign_element_numbers() has not been called
NoElementNumbers == [rvn_gdf |-> <<>>, nodes_gdf |-> <<>>]

\* no other program has run yet
InitMore ==
    /\ previous_records = <<>>
    /\ matcher = NoMatcher
    /\ edges_frame = <<>>
    /\ elem = NoElementNumbers

\* the snapping stage is given a network the stitcher has saved unchanged
InitRun ==
    /\ combined_gdf = net
    /\ pool = IdlePool
    /\ log_candidates = FALSE
    /\ disk = NoCache
    /\ exit_status = -1
    /\ manual = NoMatching
    /\ InitMore

\* pd.notna / pd.isna
notna(c) == c # None /\ c # NaN

\* row.get(col, default) on a pandas Series
Get(row, col, default) == IF col \in DOMAIN row THEN row[col] ELSE default

\* str(x) for a cell holding None, NaN or a string
Str(c) == IF c = None THEN "None" ELSE IF c = NaN THEN "nan" ELSE Val(c)

\* truth value of a cell holding None, NaN or a string (NaN is truthy)
Truthy(c) == c # None /\ c # Some("")

\* x or y
Or(x, y) == IF Truthy(x) THEN x ELSE y

With(row, col, val) ==
    [c \in DOMAIN row \cup {col} |-> IF c = col THEN val ELSE row[c]]

UpperChars == "ABCDEFGHIJKLMNOPQRSTUVWXYZÄÖÜ"
LowerChars == "abcdefghijklmnopqrstuvwxyzäöü"
Digits == "0123456789"

CharAt(s, i) == SubSeq(s, i, i)
IsChar(c, chars) == \E i \in 1..Len(chars) : CharAt(chars, i) = c
IndexOf(c, chars) == CHOOSE i \in 1..Len(chars) : CharAt(chars, i) = c

LowerChar(c) ==
    IF IsChar(c, UpperChars) THEN CharAt(LowerChars, IndexOf(c, UpperChars)) ELSE c

RECURSIVE Lower(_)
Lower(s) ==
    IF s = "" THEN "" ELSE LowerChar(CharAt(s, 1)) \o Lower(SubSeq(s, 2, Len(s)))

RECURSIVE LStrip(_)
LStrip(s) ==
    IF s # "" /\ CharAt(s, 1) = " " THEN LStrip(SubSeq(s, 2, Len(s))) ELSE s

RECURSIVE RStrip(_)
RStrip(s) ==
    IF s # "" /\ CharAt(s, Len(s)) = " " THEN RStrip(SubSeq(s, 1, Len(s) - 1)) ELSE s

Strip(s) == RStrip(LStrip(s))

\* t in s
Contains(s, t) ==
    \E i \in 1..(Len(s) - Len(t) + 1) : SubSeq(s, i, i + Len(t) - 1) = t

StartsWith(s, t) == Len(s) >= Len(t) /\ SubSeq(s, 1, Len(t)) = t

\* s.replace(t, "")
RECURSIVE Remove(_, _)
Remove(s, t) ==
    IF Len(s) < Len(t) THEN s
    ELSE IF SubSeq(s, 1, Len(t)) = t THEN Remove(SubSeq(s, Len(t) + 1, Len(s)), t)
    ELSE CharAt(s, 1) \o Remove(SubSeq(s, 2, Len(s)), t)

\* s.split(sep) for a one-character separator
RECURSIVE Split(_, _)
Split(s, sep) ==
    IF ~Contains(s, sep) THEN <<s>>
    ELSE LET i == CHOOSE i \in 1..Len(s) :
                    CharAt(s, i) = sep /\ \A j \in 1..(i - 1) : CharAt(s, j) # sep
         IN <<SubSeq(s, 1, i - 1)>> \o Split(SubSeq(s, i + 1, Len(s)), sep)

\* str.isdigit
IsDigit(s) == s # "" /\ \A i \in 1..Len(s) : IsChar(CharAt(s, i), Digits)

RECURSIVE ParseNat(_)
ParseNat(s) ==
    IF s = "" THEN 0
    ELSE 10 * ParseNat(SubSeq(s, 1, Len(s) - 1)) + (IndexOf(CharAt(s, Len(s)), Digits) - 1)

\* float(s) for decimal literals "12", "12.3", "12.34"; the value is given in
\* hundredths, -1 stands for the ValueError of a string float() rejects.
\* Exponents, signs, "inf" and more than two decimals are outside the
\* modelled input domain.
ParseFloat(s0) ==
    LET s == Strip(s0)
        parts == Split(s, ".")
    IN IF Len(parts) = 1 /\ IsDigit(parts[1]) THEN 100 * ParseNat(parts[1])
       ELSE IF Len(parts) = 2 /\ (IsDigit(parts[1]) \/ parts[1] = "")
                              /\ (IsDigit(parts[2]) \/ parts[2] = "")
                              /\ (parts[1] # "" \/ parts[2] # "")
                              /\ Len(parts[2]) <= 2
            THEN 100 * ParseNat(parts[1])
                 + (IF Len(parts[2]) = 1 THEN 10 * ParseNat(parts[2]) ELSE ParseNat(parts[2]))
       ELSE -1

\* round(x, 1) of a value in hundredths, result in tenths.  Inputs ending in
\* 5 hundredths are outside the modelled domain (binary rounding).
Round1(h) == (h + 5) \div 10

-----------------------------------------------------------------------------
(* helpers/traffic_signs.py, helpers/width_parser.py                       *)

has_traffic_sign(traffic_sign_value, target_sign) ==
    IF traffic_sign_value = "" THEN FALSE
    ELSE LET traffic_sign_str == Strip(traffic_sign_value)
             parts == Split(traffic_sign_str, ",")
         IN \/ Contains(traffic_sign_str, "DE:" \o target_sign)
            \/ \E i \in 1..Len(parts) :
                 LET part == Strip(parts[i])
                 IN IF StartsWith(part, "DE:")
                    THEN SubSeq(part, 4, Len(part)) = target_sign
                    ELSE /\ IsDigit(part)
                         /\ Contains(traffic_sign_str, "DE:")
                         /\ part = target_sign

\* width cells of the modelled inputs are strings, None or NaN
parse_width(width_value) ==
    IF ~Truthy(width_value) \/ width_value = NaN THEN None
    ELSE LET s1 == Lower(Strip(Val(width_value)))
             s2 == Strip(Remove(Remove(Remove(s1, "m"), "eter"), "tres"))
             s3 == IF Contains(s2, ";") THEN Strip(Split(s2, ";")[1]) ELSE s2
             h == ParseFloat(s3)
         IN IF h = -1 THEN None ELSE Some(Round1(h))

-----------------------------------------------------------------------------
(* translate_attributes_tilda_to_rvn.py                                    *)

MAPPING_OFM_SURFACE ==
    ("asphalt" :> "Asphalt") @@
    ("concrete" :> "Beton (Platte etc.)") @@
    ("concrete:plates" :> "Beton (Platte etc.)") @@
    ("concrete:lanes" :> "Beton (Platte etc.)") @@
    ("paving_stones" :> "Gepflastert (Berliner Platte, Mosaik, Kleinstein...)") @@
    ("mosaic_sett" :> "Gepflastert (Berliner Platte, Mosaik, Kleinstein...)") @@
    ("small_sett" :> "Gepflastert (Berliner Platte, Mosaik, Kleinstein...)") @@
    ("large_sett" :> "Gepflastert (Berliner Platte, Mosaik, Kleinstein...)") @@
    ("sett" :> "Kopfsteinpflaster / Großstein") @@
    ("cobblestone" :> "Kopfsteinpflaster / Großstein") @@
    ("bricks" :> "Kopfsteinpflaster / Großstein") @@
    ("stone" :> "Kopfsteinpflaster / Großstein") @@
    ("unpaved" :> "Ungebunden") @@
    ("ground" :> "Ungebunden") @@
    ("grass" :> "Ungebunden") @@
    ("sand" :> "Ungebunden") @@
    ("compacted" :> "Ungebunden") @@
    ("fine_gravel" :> "Ungebunden") @@
    ("pebblestone" :> "Ungebunden") @@
    ("gravel" :> "Ungebunden")

MAPPING_PROTEK_SEPARATION ==
    ("bollard" :> "Poller (auf Sperrfläche)") @@
    ("bump" :> "Schwellen (auf Sperrfläche)") @@
    ("vertical_panel" :> "Leitboys (flexibel, auf Breitstrich, ohne Sperrfläche)") @@
    ("planter" :> "Sonstige (z.B. Pflanzkübel, Leitplanke)") @@
    ("guard_rail" :> "Sonstige (z.B. Pflanzkübel, Leitplanke)") @@
    ("no" :> "Ohne")

TRAFFIC_SIGNS_PFLICHT == <<"237", "240", "241">>

TRAFFIC_SIGNS_NUTZ_BESCHR == <<"Gehwegschäden", "Radwegschäden", "Geh- und Radwegschäden">>

CONFIG_REMOVE_TILDA_ATTRIBUTES ==
    {"lit", "description", "maxspeed_name_ref", "maxspeed_confidence",
     "maxspeed_conditional", "maxspeed_source", "mapillary_coverage", "mapillary",
     "bridge", "tunnel", "mapillary_traffic_sign", "mapillary_backward",
     "mapillary_forward", "todos", "updated_age", "updated_at", "width_source",
     "surface_confidence", "surface_source", "smoothness_confidence",
     "smoothness_source", "length", "offset", "_parent_highway"}

determine_verkehrsri(row, data_source) ==
    LET oneway == Strip(Str(Get(row, "oneway", Some(""))))
        oneway_bicycle == Strip(Str(Get(row, "oneway_bicycle", Some(""))))
    IN IF data_source = "bikelanes" THEN
           IF oneway = "yes" THEN "Einrichtungsverkehr"
           ELSE IF oneway = "no" THEN "Zweirichtungsverkehr"
           ELSE IF oneway = "car_not_bike" THEN "Zweirichtungsverkehr"
           ELSE IF oneway = "assumed_no" THEN "[TODO] Vermutlich nein"
           ELSE IF oneway = "implicit_yes" THEN "[TODO] Vermutlich Einrichtungsverkehr"
           ELSE IF oneway = "" \/ oneway \in {"None", "none"} THEN "[TODO] Fehlender Wert"
           ELSE "[TODO] Fehlerhafter Wert"
       ELSE IF data_source \in {"streets", "paths"} THEN
           IF oneway = "" \/ oneway \in {"None", "none", "nil"} THEN "Zweirichtungsverkehr"
           ELSE IF oneway_bicycle = "no" THEN "Zweirichtungsverkehr"
           ELSE IF oneway = "yes" THEN "Einrichtungsverkehr"
           ELSE IF oneway = "yes_dual_carriageway" THEN "Einrichtungsverkehr"
           ELSE IF oneway = "no" THEN "Zweirichtungsverkehr"
           ELSE "[TODO] Fehlerhafter Wert"
       ELSE "[TODO] Fehlerhafter Wert"

determine_fuehrung(row, data_source) ==
    LET category == Strip(Str(Get(row, "category", Some(""))))
        traffic_sign == Strip(Str(Get(row, "traffic_sign", Some(""))))
    IN IF data_source = "streets" THEN "Mischverkehr mit motorisiertem Verkehr"
       ELSE IF data_source = "paths"
            THEN "Sonstige Wege (Gehwege, Wege durch Grünflächen, Plätze)"
       ELSE IF category \in {"cyclewayOnHighway_exclusive", "cyclewayOnHighwayBetweenLanes"}
            THEN "Radfahrstreifen"
       ELSE IF category = "sharedBusLaneBikeWithBus"
            THEN "Radfahrstreifen mit Linienverkehr frei (Z237 mit Z1026-32)"
       ELSE IF category = "cyclewayOnHighwayProtected" THEN "Geschützter Radfahrstreifen"
       ELSE IF category = "cyclewayOnHighway_advisory" THEN "Schutzstreifen"
       ELSE IF category \in {"bicycleRoad", "bicycleRoad_vehicleDestination"}
            THEN "Fahrradstraße /-zone (Z 244)"
       ELSE IF \E cat \in {"footAndCyclewayShared", "footAndCyclewaySegregated",
                           "cyclewaySeparated", "cycleway_adjoining"} :
                   StartsWith(category, cat)
            THEN IF StartsWith(category, "footAndCyclewayShared")
                    /\ has_traffic_sign(traffic_sign, "240")
                 THEN "Gemeinsamer Geh- und Radweg mit Z240"
                 ELSE "Radweg"
       ELSE IF StartsWith(category, "footwayBicycleYes")
            THEN IF has_traffic_sign(traffic_sign, "239")
                    /\ has_traffic_sign(traffic_sign, "1022-10")
                 THEN "Gehweg mit Zusatzzeichen \"Radverkehr frei\" (Z239 mit Z1022-10)"
                 ELSE IF Strip(traffic_sign) \in {"none", "nan"}
                 THEN "Sonstige Wege (Gehwege, Wege durch Grünflächen, Plätze)"
                 ELSE "[TODO] Gehweg ohne Verkehrszeichen"
       ELSE IF /\ category = "pedestrianAreaBicycleYes"
               /\ (has_traffic_sign(traffic_sign, "242") \/ has_traffic_sign(traffic_sign, "242.1"))
               /\ has_traffic_sign(traffic_sign, "1022-10")
            THEN "Fußgängerzone \"Radverkehr frei\" (Z242 mit Z1022-10)"
       ELSE IF category = "crossing" THEN "[TODO] Kreuzungs-Querung"
       ELSE IF category = "needsClarification" THEN "[TODO] Klärung notwendig"
       ELSE "[TODO] Führung fehlt"

determine_pflicht(row, data_source) ==
    IF data_source \in {"streets", "paths"} THEN FALSE
    ELSE LET traffic_sign == Str(Get(row, "traffic_sign", Some("")))
         IN \E i \in 1..Len(TRAFFIC_SIGNS_PFLICHT) :
                has_traffic_sign(traffic_sign, TRAFFIC_SIGNS_PFLICHT[i])

\* an unknown surface is passed through instead of being reported
determine_ofm_passthrough(row) ==
    LET surface == Lower(Strip(Str(Get(row, "surface", Some("")))))
    IN IF surface = "" \/ surface = "nan" THEN "NICHT-GEFUNDEN"
       ELSE IF surface \in DOMAIN MAPPING_OFM_SURFACE THEN MAPPING_OFM_SURFACE[surface]
       ELSE IF surface \in {"grass_paver", "wood", "metal", "paved"}
            THEN "[TODO] Nicht zuordenbar"
       ELSE IF surface = "none" THEN "[TODO] Oberfläche Fehlt"
       ELSE surface

determine_ofm(row) ==
    LET surface == Lower(Strip(Str(Get(row, "surface", Some("")))))
    IN IF surface = "" \/ surface = "nan" THEN "NICHT-GEFUNDEN"
       ELSE IF surface \in DOMAIN MAPPING_OFM_SURFACE THEN MAPPING_OFM_SURFACE[surface]
       ELSE IF surface \in {"grass_paver", "wood", "metal", "paved"}
            THEN "[TODO] Nicht zuordenbar"
       ELSE IF surface = "none" THEN "[TODO] Oberfläche Fehlt"
       ELSE "NICHT-GEFUNDEN"

determine_farbe(row) ==
    Lower(Strip(Str(Get(row, "surface_color", Some(""))))) \in {"red", "green"}

\* the outcome of one pass of the loop over the sides, "" when the pass returns nothing
protek_side(row, side) ==
    LET separation == Or(Get(row, "separation_" \o side, Some("")),
                         Get(row, "separation", Some("")))
        traffic_mode == Get(row, "traffic_mode_" \o side, Some(""))
        markings == Or(Get(row, "marking_" \o side, Some("")),
                       Get(row, "marking", Some("")))
        separation_str == Lower(Strip(Str(separation)))
    IN IF Lower(Strip(Str(traffic_mode))) = "parking"
          /\ Contains(Lower(Str(markings)), "barred_area")
       THEN "Ruhender Verkehr (mit Sperrfläche)"
       ELSE IF separation_str \in DOMAIN MAPPING_PROTEK_SEPARATION
       THEN MAPPING_PROTEK_SEPARATION[separation_str]
       ELSE IF Contains(Lower(Str(markings)), "barred_area") /\ separation_str = "no"
       THEN "nur Sperrfläche"
       ELSE ""

determine_protek(row) ==
    LET category == Strip(Str(Get(row, "category", Some(""))))
    IN IF category # "cyclewayOnHighwayProtected" THEN "Ohne"
       ELSE IF protek_side(row, "left") # "" THEN protek_side(row, "left")
       ELSE IF protek_side(row, "right") # "" THEN protek_side(row, "right")
       ELSE "[TODO] Protektionstyp fehlt"

determine_trennstreifen(row) ==
    LET category == Lower(Strip(Str(Get(row, "category", Some("")))))
        mode(side) == Lower(Strip(Str(Get(row, "traffic_mode_" \o side, Some("")))))
        marks(side) == Lower(Strip(Str(Get(row, "marking_" \o side, Some("")))))
        buffer_right == Get(row, "buffer_right", None)
        \* float(buffer_right) in hundredths; -1: None, "", NaN or not a number
        buffer_right_val ==
            IF buffer_right = None \/ buffer_right = Some("") \/ buffer_right = NaN
            THEN -1 ELSE ParseFloat(Val(buffer_right))
    IN IF StartsWith(category, "bicycleroad") THEN
           IF \E side \in {"left", "right"} :
                 /\ (Contains(marks(side), "dashed_line") \/ Contains(marks(side), "solid_line"))
                 /\ mode(side) = "parking"
           THEN "ja"
           ELSE IF ~(mode("left") = "parking" \/ mode("right") = "parking") THEN "entfällt"
           ELSE "nein"
       ELSE IF mode("right") # "parking" THEN "entfällt"
       ELSE IF buffer_right_val # -1 /\ buffer_right_val >= 60 THEN "ja"
       ELSE "nein"

determine_nutz_beschr(row) ==
    LET traffic_sign == Str(Get(row, "traffic_sign", Some("")))
    IN IF \E i \in 1..Len(TRAFFIC_SIGNS_NUTZ_BESCHR) :
              Contains(traffic_sign, TRAFFIC_SIGNS_NUTZ_BESCHR[i])
       THEN "Schadensschild/StVO Zusatzeichen (Straßenschäden, Gehwegschäden, Radwegschäden)"
       ELSE "keine"

rvn_attributes ==
    {"pflicht", "breite", "ofm", "farbe", "protek", "trennstreifen", "nutz_beschr",
     "fuehr", "verkehrsri"}

assign_prefix_and_remove_unnecessary_attrs(row) ==
    LET kept == DOMAIN row \ CONFIG_REMOVE_TILDA_ATTRIBUTES
        renamed(col) == IF col \notin rvn_attributes /\ col # "geometry"
                        THEN "tilda_" \o col ELSE col
    IN [n \in {renamed(col) : col \in kept} |->
            row[CHOOSE col \in kept : renamed(col) = n]]

\* the body of the loop over the rows: the nine normalized columns of one row
translate_row(row, data_source) ==
    [c \in DOMAIN row \cup rvn_attributes |->
        CASE c = "verkehrsri"    -> Some(determine_verkehrsri(row, data_source))
          [] c = "fuehr"         -> Some(determine_fuehrung(row, data_source))
          [] c = "pflicht"       -> Some(determine_pflicht(row, data_source))
          [] c = "breite"        -> parse_width(Get(row, "width", None))
          [] c = "ofm"           -> Some(determine_ofm(row))
          [] c = "farbe"         -> Some(determine_farbe(row))
          [] c = "protek"        -> Some(determine_protek(row))
          [] c = "trennstreifen" -> Some(determine_trennstreifen(row))
          [] c = "nutz_beschr"   -> Some(determine_nutz_beschr(row))
          [] OTHER               -> row[c]]

translate_tilda_attributes(gdf, data_source) ==
    [i \in 1..Len(gdf) |->
        assign_prefix_and_remove_unnecessary_attrs(translate_row(gdf[i], data_source))]

-----------------------------------------------------------------------------
(* Geometry.  A geometry is known to the pipeline through its bearing, its  *)
(* length (in centimetres) and its distances to other geometries.  A way   *)
(* of the TILDA data is [id, angle]; a network segment is                  *)
(* [angle, length, rel], rel giving for every way its distance to the      *)
(* segment (d), its distance to the segment's midpoint (mid) and whether   *)
(* its bounding box meets the bounds of the segment's buffer (bbox), and   *)
(* inter giving for every district the length of the part of the segment   *)
(* inside it.                                                              *)

calculate_line_angle(line) == line.angle

angle_difference(angle1, angle2) ==
    LET diff == IF angle1 >= angle2 THEN angle1 - angle2 ELSE angle2 - angle1
    IN IF diff <= 360 - diff THEN diff ELSE 360 - diff

\* the comparison of the angle difference is the wrong way round
determine_segment_direction_flipped(segment_geom, osm_geom) ==
    LET angle_diff == angle_difference(calculate_line_angle(segment_geom),
                                       calculate_line_angle(osm_geom))
    IN IF angle_diff >= 90 THEN 0 ELSE 1

determine_segment_direction(segment_geom, osm_geom) ==
    LET angle_diff == angle_difference(calculate_line_angle(segment_geom),
                                       calculate_line_angle(osm_geom))
    IN IF angle_diff < 90 THEN 0 ELSE 1

\* int(round(x)) of a length in centimetres, in metres (round half to even)
RoundMetres(cm) ==
    LET q == cm \div 100
        r == cm % 100
    IN IF r < 50 THEN q
       ELSE IF r > 50 THEN q + 1
       ELSE IF q % 2 = 0 THEN q ELSE q + 1

calculate_segment_length(geometry) == geometry.length

RECURSIVE SumLengths(_)
SumLengths(geoms) ==
    IF geoms = <<>> THEN 0 ELSE Head(geoms).length + SumLengths(Tail(geoms))

\* the length of the intersection of the merged line with district k: the
\* pieces join end to end, so the parts inside the district add up; -1 is the
\* empty intersection, 0 an intersection that is a point
MergedInter(geoms, k) ==
    LET RECURSIVE Sum(_)
        Sum(i) == IF i > Len(geoms) THEN 0
                  ELSE (IF geoms[i].inter[k] > 0 THEN geoms[i].inter[k] ELSE 0) + Sum(i + 1)
    IN IF \A i \in 1..Len(geoms) : geoms[i].inter[k] = -1 THEN -1 ELSE Sum(1)

\* the lines of the geometries, one after the other
RECURSIVE Pieces(_)
Pieces(geoms) ==
    IF geoms = <<>> THEN <<>> ELSE Head(geoms).pieces \o Pieces(Tail(geoms))

\* shapely.ops.linemerge: the lines are joined end to end; every line given
\* is part of the result, a line given twice is twice in it
linemerge(geoms) ==
    [angle |-> geoms[1].angle, length |-> SumLengths(geoms), rel |-> geoms[1].rel,
     inter |-> [k \in DOMAIN geoms[1].inter |-> MergedInter(geoms, k)],
     pieces |-> Pieces(geoms)]

-----------------------------------------------------------------------------
(* start_snapping.py: candidate selection and variant creation             *)

CONFIG_BUFFER_DEFAULT == 25

\* maximum angle difference for the orientation in degrees; the snapping
\* loop computes the angle difference of every candidate and compares it
\* with nothing
CONFIG_MAX_ANGLE_DIFFERENCE == 50

FINAL_DATASET_SEGMENT_MERGE_ATTRIBUTES ==
    <<"fuehr", "ofm", "protek", "pflicht", "breite", "farbe", "ri", "verkehrsri",
      "trennstreifen", "nutz_beschr", "Kommentar">>

FINAL_DATASET_SEGMENT_ADDITIONAL_ATTRIBUTES ==
    <<"data_source", "tilda_id", "tilda_name", "tilda_oneway", "tilda_category",
      "tilda_traffic_sign", "tilda_mapillary", "tilda_mapillary_traffic_sign",
      "tilda_mapillary_backward", "tilda_mapillary_forward">>

Range(seq) == {seq[i] : i \in 1..Len(seq)}

TILDA_TRAFFIC_SIGN_PRIORITIES == ("237" :> 3) @@ ("240" :> 3) @@ ("241" :> 3)

TILDA_CATEGORY_PRIORITIES ==
    ("bicycleRoad*" :> 6) @@ ("cycleway*" :> 6) @@ ("footAndCycleway*" :> 5) @@
    ("footwayBicycle*" :> 4) @@ ("sharedBusLaneBikeWithBus" :> 3) @@
    ("sharedBusLaneBusWithBike" :> 2) @@ ("pedestrianAreaBicycleYes" :> 2) @@
    ("sharedMotorVehicleLane" :> 1)

SetMax(S) == IF S = {} THEN 0 ELSE CHOOSE m \in S : \A n \in S : n <= m

calculate_osm_priority(row) ==
    LET traffic_sign == Get(row, "tilda_traffic_sign", Some(""))
        category == Get(row, "tilda_category", Some(""))
        sign_prios ==
            IF Truthy(traffic_sign) /\ traffic_sign # NaN
            THEN {TILDA_TRAFFIC_SIGN_PRIORITIES[sign] :
                     sign \in {t \in DOMAIN TILDA_TRAFFIC_SIGN_PRIORITIES :
                                  has_traffic_sign(Val(traffic_sign), t)}}
            ELSE {}
        category_str == Str(category)
        matches(pattern) ==
            IF CharAt(pattern, Len(pattern)) = "*"
            THEN StartsWith(category_str, SubSeq(pattern, 1, Len(pattern) - 1))
            ELSE category_str = pattern
        category_prios ==
            IF Truthy(category)
            THEN {TILDA_CATEGORY_PRIORITIES[pattern] :
                     pattern \in {q \in DOMAIN TILDA_CATEGORY_PRIORITIES : matches(q)}}
            ELSE {}
    IN SetMax({0} \cup sign_prios \cup category_prios)

create_base_variant_optimized(seg_dict, ri_value) ==
    ("geometry" :> seg_dict["geometry"]) @@
    ("ri" :> Some(ri_value)) @@
    ("element_nr" :> Get(seg_dict, "element_nr", None)) @@
    ("beginnt_bei_vp" :> Get(seg_dict, "beginnt_bei_vp", None)) @@
    ("endet_bei_vp" :> Get(seg_dict, "endet_bei_vp", None)) @@
    ("Länge" :> Some(RoundMetres(calculate_segment_length(seg_dict["geometry"])))) @@
    ("Bezirksnummer" :> Get(seg_dict, "Bezirksnummer", None)) @@
    ("strassenname" :> Get(seg_dict, "strassenname", None)) @@
    ("data_source" :> Get(seg_dict, "data_source", None)) @@
    ("edge_source" :> Get(seg_dict, "edge_source", None))

\* the score columns the function adds to one candidate; ri_value is 0, 1 or
\* -1 for the None passed by the one-way mixed-traffic case
score_candidate(candidate, seg_dict, ri_value) ==
    LET segment_geom == seg_dict["geometry"]
        compat == IF Get(candidate, "verkehrsri", Some("")) = Some("Einrichtungsverkehr")
                  THEN IF determine_segment_direction(segment_geom, candidate["geometry"])
                          = ri_value
                       THEN 10 ELSE 0
                  ELSE 1
    IN [c \in DOMAIN candidate \cup {"priority", "dist_to_mid", "direction_compatibility"} |->
          CASE c = "priority" -> calculate_osm_priority(candidate)
            [] c = "dist_to_mid" -> segment_geom.rel[candidate["geometry"].id].mid
            [] c = "direction_compatibility" -> compat
            [] OTHER -> candidate[c]]

\* the sort with the first two columns exchanged: the priority of the way
\* decides before its direction
sorts_before_priority_first(a, b) ==
    \/ a["priority"] > b["priority"]
    \/ /\ a["priority"] = b["priority"]
       /\ \/ a["direction_compatibility"] > b["direction_compatibility"]
          \/ /\ a["direction_compatibility"] = b["direction_compatibility"]
             /\ a["dist_to_mid"] < b["dist_to_mid"]

\* a sorts strictly before b under
\* sort_values([direction_compatibility, priority, dist_to_mid], [False, False, True])
sorts_before(a, b) ==
    \/ a["direction_compatibility"] > b["direction_compatibility"]
    \/ /\ a["direction_compatibility"] = b["direction_compatibility"]
       /\ \/ a["priority"] > b["priority"]
          \/ /\ a["priority"] = b["priority"]
             /\ a["dist_to_mid"] < b["dist_to_mid"]

\* the candidate the function returns, None for an empty candidate list; the
\* multi-column sort is stable, so among equal keys the first row stays first
find_best_candidate_for_direction(candidates, seg_dict, ri_value) ==
    IF Len(candidates) = 0 THEN None
    ELSE LET scored == [i \in 1..Len(candidates) |->
                          score_candidate(candidates[i], seg_dict, ri_value)]
             best == CHOOSE i \in 1..Len(scored) :
                        /\ \A j \in 1..Len(scored) : ~sorts_before(scored[j], scored[i])
                        /\ \A j \in 1..(i - 1) : sorts_before(scored[j], scored[i])
                                                 \/ sorts_before(scored[i], scored[j])
         IN Some(scored[best])

\* the attributes a variant takes over from the chosen candidate
transfer_attributes(variant, best_osm) ==
    LET merge == {a \in Range(FINAL_DATASET_SEGMENT_MERGE_ATTRIBUTES) :
                     a # "ri" /\ a \in DOMAIN best_osm}
        additional == Range(FINAL_DATASET_SEGMENT_ADDITIONAL_ATTRIBUTES)
    IN [c \in DOMAIN variant \cup merge \cup additional |->
          IF c \in additional THEN Get(best_osm, c, None)
          ELSE IF c \in merge THEN best_osm[c]
          ELSE variant[c]]

\* a variant without a candidate: the listed attributes it lacks become None
clear_attributes(variant, skipped) ==
    LET merge == {a \in Range(FINAL_DATASET_SEGMENT_MERGE_ATTRIBUTES) :
                     a \notin skipped /\ a \notin DOMAIN variant}
        additional == Range(FINAL_DATASET_SEGMENT_ADDITIONAL_ATTRIBUTES)
    IN [c \in DOMAIN variant \cup merge \cup additional |->
          IF c \in additional \/ c \in merge THEN None ELSE variant[c]]

IsEinrichtung(cand) == Get(cand, "verkehrsri", Some("")) = Some("Einrichtungsverkehr")

\* the selection of the dual carriageways left out: no candidate counts as one
no_dual_carriageway(cand) == FALSE

IsDualCarriageway(cand) == Get(cand, "tilda_oneway", Some("")) = Some("yes_dual_carriageway")

create_directional_segment_variants_optimized(seg_dict, target_candidates) ==
    LET einrichtung_candidates == SelectSeq(target_candidates, IsEinrichtung)
        dual_carriageway_candidates == SelectSeq(target_candidates, IsDualCarriageway)
    IN IF Len(target_candidates) = 0 THEN
           [i \in 1..2 |->
               clear_attributes(
                   With(create_base_variant_optimized(seg_dict, i - 1), "fuehr",
                        Some("Keine Radinfrastruktur vorhanden")),
                   {"ri", "fuehr"})]
       ELSE IF /\ Len(einrichtung_candidates) > 0
               /\ Len(einrichtung_candidates) = Len(target_candidates)
               /\ Len(dual_carriageway_candidates) = 0
               /\ \A i \in 1..Len(einrichtung_candidates) :
                      Get(einrichtung_candidates[i], "fuehr", None)
                          = Some("Mischverkehr mit motorisiertem Verkehr")
       THEN LET best_osm == Val(find_best_candidate_for_direction(
                                    einrichtung_candidates, seg_dict, -1))
                ri == determine_segment_direction(seg_dict["geometry"], best_osm["geometry"])
            IN <<transfer_attributes(create_base_variant_optimized(seg_dict, ri), best_osm)>>
       ELSE LET candidates_to_use ==
                    IF /\ Len(dual_carriageway_candidates) > 0
                       /\ Len(dual_carriageway_candidates) = Len(target_candidates)
                       /\ \A i \in 1..Len(dual_carriageway_candidates) :
                              Get(dual_carriageway_candidates[i], "verkehrsri", None)
                                  = Some("Einrichtungsverkehr")
                    THEN dual_carriageway_candidates
                    ELSE target_candidates
            IN [i \in 1..2 |->
                   LET best_osm == find_best_candidate_for_direction(
                                       candidates_to_use, seg_dict, i - 1)
                       variant == create_base_variant_optimized(seg_dict, i - 1)
                   IN IF best_osm # None THEN transfer_attributes(variant, Val(best_osm))
                      ELSE clear_attributes(variant, {})]

\* the candidates of the spatial index query are used without the distance filter
snap_segment_unfiltered(seg_dict, osm_gdf, buffer) ==
    LET g == seg_dict["geometry"]
        InBounds(row) == g.rel[row["geometry"].id].bbox
        cand_idx == SelectSeq(osm_gdf, InBounds)
        WithD(row) == With(row, "d", g.rel[row["geometry"].id].d)
    IN create_directional_segment_variants_optimized(
           seg_dict, [i \in 1..Len(cand_idx) |-> WithD(cand_idx[i])])

\* the pass of the batch loop for one segment: spatial index query, distance
\* filter, angle columns, variant creation
snap_segment(seg_dict, osm_gdf, buffer) ==
    LET g == seg_dict["geometry"]
        InBounds(row) == g.rel[row["geometry"].id].bbox
        cand_idx == SelectSeq(osm_gdf, InBounds)
        WithD(row) == With(row, "d", g.rel[row["geometry"].id].d)
        InBuffer(row) == row["d"] <= buffer
        cand == SelectSeq([i \in 1..Len(cand_idx) |-> WithD(cand_idx[i])], InBuffer)
        seg_angle == calculate_line_angle(g)
        WithAngles(row) ==
            With(With(row, "angle", calculate_line_angle(row["geometry"])),
                 "angle_diff",
                 angle_difference(calculate_line_angle(row["geometry"]), seg_angle))
    IN IF Len(cand_idx) = 0 THEN create_directional_segment_variants_optimized(seg_dict, <<>>)
       ELSE IF Len(cand) = 0 THEN create_directional_segment_variants_optimized(seg_dict, <<>>)
       ELSE create_directional_segment_variants_optimized(
                seg_dict, [i \in 1..Len(cand) |-> WithAngles(cand[i])])

\* the sequences of seqs one after the other (list.extend, pd.concat)
Concat(seqs) ==
    LET RECURSIVE First(_)
        First(n) == IF n = 0 THEN <<>> ELSE First(n - 1) \o seqs[n]
    IN First(Len(seqs))

\* process_segments_batch: the loop over the segments of one batch
process_segments_batch(segments_batch, osm_gdf, buffer) ==
    Concat([i \in 1..Len(segments_batch) |->
               snap_segment(segments_batch[i], osm_gdf, buffer)])

\* process_segments_batch_parallel: the loop a worker runs on the ways it
\* loads from the pickle file
process_segments_batch_parallel(batch_data) ==
    LET segments_batch == batch_data[1]
        osm_gdf == batch_data[2]
        buffer == batch_data[3]
    IN Concat([i \in 1..Len(segments_batch) |->
                  snap_segment(segments_batch[i], osm_gdf, buffer)])

\* CONFIG_BATCH_SIZE is 250 in the source; the batches of the model hold
\* two segments
CONFIG_BATCH_SIZE == 2

\* the worker processes of the pool
CONFIG_CPU_CORES == 2

Min(a, b) == IF a < b THEN a ELSE b

\* batches that reach one segment into the next batch
batch_data_list_overlapping(segments_list, osm_gdf, buffer) ==
    [b \in 1..((Len(segments_list) + CONFIG_BATCH_SIZE - 1) \div CONFIG_BATCH_SIZE) |->
        <<SubSeq(segments_list, (b - 1) * CONFIG_BATCH_SIZE + 1,
                 Min(b * CONFIG_BATCH_SIZE + 1, Len(segments_list))),
          osm_gdf, buffer, (b - 1) * CONFIG_BATCH_SIZE>>]

\* process(): the batches in the order they are submitted
batch_data_list(segments_list, osm_gdf, buffer) ==
    [b \in 1..((Len(segments_list) + CONFIG_BATCH_SIZE - 1) \div CONFIG_BATCH_SIZE) |->
        <<SubSeq(segments_list, (b - 1) * CONFIG_BATCH_SIZE + 1,
                 Min(b * CONFIG_BATCH_SIZE, Len(segments_list))),
          osm_gdf, buffer, (b - 1) * CONFIG_BATCH_SIZE>>]

\* a pool that yields the results in the order the workers finish
imap_unordered_next(outqueue, yielded) ==
    IF Len(outqueue) > yielded THEN yielded + 1 ELSE 0

\* pool.imap: the place in the queue of results of the result the iterator
\* yields next, the one of the batch submitted after the batches yielded so
\* far; 0 while no worker has delivered it
imap_next(outqueue, yielded) ==
    LET ready == {i \in 1..Len(outqueue) : outqueue[i][1] = yielded + 1}
    IN IF ready = {} THEN 0 ELSE CHOOSE i \in ready : TRUE

-----------------------------------------------------------------------------
(* start_matching.py: the translated files become one collection           *)

DataSources == <<"bikelanes", "streets", "paths">>


\* the last row of every value stays
drop_duplicates_keep_last(gdf, col) ==
    LET Last(i) == \A j \in (i + 1)..Len(gdf) : gdf[j][col] # gdf[i][col]
        keep == {i \in 1..Len(gdf) : Last(i)}
        RECURSIVE Pick(_)
        Pick(i) == IF i > Len(gdf) THEN <<>>
                   ELSE (IF i \in keep THEN <<gdf[i]>> ELSE <<>>) \o Pick(i + 1)
    IN Pick(1)

\* drop_duplicates(subset=[col]): the first row of every value stays
drop_duplicates(gdf, col) ==
    LET First(i) == \A j \in 1..(i - 1) : gdf[j][col] # gdf[i][col]
        keep == {i \in 1..Len(gdf) : First(i)}
        RECURSIVE Pick(_)
        Pick(i) == IF i > Len(gdf) THEN <<>>
                   ELSE (IF i \in keep THEN <<gdf[i]>> ELSE <<>>) \o Pick(i + 1)
    IN Pick(1)

combine_multiple_datasets(datasets) ==
    LET tagged(s) == [i \in 1..Len(datasets[s]) |->
                         With(datasets[s][i], "data_source", Some(s))]
        combined_gdfs == [k \in 1..Len(DataSources) |-> tagged(DataSources[k])]
        all_rows == Concat(combined_gdfs)
        all_columns == UNION {DOMAIN all_rows[i] : i \in 1..Len(all_rows)}
        harmonized == [i \in 1..Len(all_rows) |->
                         [c \in all_columns |-> Get(all_rows[i], c, None)]]
    IN IF "tilda_id" \in all_columns THEN drop_duplicates(harmonized, "tilda_id")
       ELSE IF "tilda_osm_id" \in all_columns THEN drop_duplicates(harmonized, "tilda_osm_id")
       ELSE harmonized

-----------------------------------------------------------------------------
(* start_snapping.py: merging the variants of an edge                      *)

\* gpd.GeoDataFrame(records): a record lacking a column holds NaN there
GeoDataFrame(records) ==
    LET columns == UNION {DOMAIN records[i] : i \in 1..Len(records)}
    IN [i \in 1..Len(records) |-> [c \in columns |-> Get(records[i], c, NaN)]]

StringColumns ==
    {"fuehr", "ofm", "protek", "verkehrsri", "trennstreifen", "nutz_beschr", "Kommentar"}

\* the marker "NULL" of the normalized columns, a cell no column holds
NULL == None

normalize_merge_attribute(value, field) ==
    IF ~notna(value) THEN NULL
    ELSE IF field \in StringColumns THEN Some(Strip(Val(value)))
    ELSE value

normalize_merge_attributes_batch(row, fields) ==
    [k \in 1..Len(fields) |->
        IF fields[k] \in DOMAIN row THEN normalize_merge_attribute(row[fields[k]], fields[k])
        ELSE NULL]

\* the rows of a frame grouped by their keys, groups in order of first
\* appearance (sort=False); only the rows whose key has no missing part belong
\* to a group (dropna)
GroupBy(gdf, keys, rows) ==
    LET firsts == {i \in rows : \A j \in rows : j < i => keys[j] # keys[i]}
        RECURSIVE Members(_, _)
        Members(i, k) == IF i > Len(gdf) THEN <<>>
                         ELSE (IF i \in rows /\ keys[i] = k THEN <<gdf[i]>> ELSE <<>>)
                              \o Members(i + 1, k)
        RECURSIVE Groups(_)
        Groups(i) == IF i > Len(gdf) THEN <<>>
                     ELSE (IF i \in firsts THEN <<Members(1, keys[i])>> ELSE <<>>)
                          \o Groups(i + 1)
    IN Groups(1)

Geometries(gruppe) == [i \in 1..Len(gruppe) |-> gruppe[i]["geometry"]]

merge_segments(gdf, id_field, osm_fields) ==
    LET keys == [i \in 1..Len(gdf) |->
                    <<gdf[i][id_field]>> \o normalize_merge_attributes_batch(gdf[i], osm_fields)]
        rows == {i \in 1..Len(gdf) : notna(gdf[i][id_field])}
        grouped == GroupBy(gdf, keys, rows)
    IN [g \in 1..Len(grouped) |->
          LET merged == linemerge(Geometries(grouped[g]))
          IN With(With(grouped[g][1], "geometry", merged),
                  "Länge", Some(RoundMetres(calculate_segment_length(merged))))]

\* the end of process(): merge, width cleanup, sfid
finish_snapping(records) ==
    LET merged == merge_segments(GeoDataFrame(records), "element_nr",
                                 FINAL_DATASET_SEGMENT_MERGE_ATTRIBUTES)
        cleaned == [i \in 1..Len(merged) |->
                      IF merged[i]["fuehr"] = Some("Mischverkehr mit motorisiertem Verkehr")
                      THEN With(merged[i], "breite", None) ELSE merged[i]]
    IN [i \in 1..Len(cleaned) |-> With(cleaned[i], "sfid", Some(i))]

-----------------------------------------------------------------------------
(* aggregate_final_model.py                                                *)

LONGEST_SECTION_ATTRIBUTES == <<"bezirk", "fuehr", "pflicht", "ofm", "farbe", "protek">>

WORST_CASE_ATTRIBUTES == <<"breite", "trennstreifen", "nutz_beschr">>

NUTZ_BESCHR_HIERARCHY ==
    <<"Physische Sperre",
      "Schadensschild/StVO Zusatzeichen (Straßenschäden, Gehwegschäden, Radwegschäden)",
      "keine">>

TRENNSTREIFEN_HIERARCHY == <<"nein", "ja", "entfällt">>

COLUMNS_TO_DROP ==
    {"okstra_id", "existenz", "ist_radvorrangnetz", "elem_nr", "gisid", "gueltig_von",
     "dnez__sdatenid", "str_bez", "Index", "strassenklasse", "sfid"}

\* the characters of the sorted columns (ids, names, tags) in code point order
CodePoints ==
    " #+,-./0123456789:;<=>ABCDEFGHIJKLMNOPQRSTUVWXYZ[]_abcdefghijklmnopqrstuvwxyz|~ÄÖÜßäöü"

\* s < t for Python strings
RECURSIVE StrLess(_, _)
StrLess(s, t) ==
    IF t = "" THEN FALSE
    ELSE IF s = "" THEN TRUE
    ELSE IF CharAt(s, 1) = CharAt(t, 1)
         THEN StrLess(SubSeq(s, 2, Len(s)), SubSeq(t, 2, Len(t)))
         ELSE IndexOf(CharAt(s, 1), CodePoints) < IndexOf(CharAt(t, 1), CodePoints)

\* sorted(values) of a set of strings
RECURSIVE Sorted(_)
Sorted(S) ==
    IF S = {} THEN <<>>
    ELSE LET m == CHOOSE x \in S : \A y \in S : y = x \/ StrLess(x, y)
         IN <<m>> \o Sorted(S \ {m})

RECURSIVE Join(_, _)
Join(parts, sep) ==
    IF Len(parts) = 0 THEN ""
    ELSE IF Len(parts) = 1 THEN parts[1]
    ELSE parts[1] \o sep \o Join(Tail(parts), sep)

\* the first position of the hierarchy found among the values, else values[0]
FirstOf(hierarchy, values) ==
    IF \E k \in 1..Len(hierarchy) : hierarchy[k] \in Range(values)
    THEN hierarchy[CHOOSE k \in 1..Len(hierarchy) :
                      /\ hierarchy[k] \in Range(values)
                      /\ \A j \in 1..(k - 1) : hierarchy[j] \notin Range(values)]
    ELSE values[1]

find_worst_nutz_beschr(values) ==
    IF values = <<>> THEN "keine" ELSE FirstOf(NUTZ_BESCHR_HIERARCHY, values)

find_worst_trennstreifen(values) ==
    IF values = <<>> THEN "entfällt" ELSE FirstOf(TRENNSTREIFEN_HIERARCHY, values)

\* the non-null cells of a column, in row order
NonNull(segments_group, attribute) ==
    LET RECURSIVE Pick(_)
        Pick(i) == IF i > Len(segments_group) THEN <<>>
                   ELSE (IF notna(segments_group[i][attribute])
                         THEN <<Val(segments_group[i][attribute])>> ELSE <<>>) \o Pick(i + 1)
    IN Pick(1)

\* value_lengths[value] after the loop over the rows
value_length(segments_group, attribute, value) ==
    LET RECURSIVE Sum(_)
        Sum(i) == IF i > Len(segments_group) THEN 0
                  ELSE (IF segments_group[i][attribute] = Some(value)
                        THEN calculate_segment_length(segments_group[i]["geometry"]) ELSE 0)
                       + Sum(i + 1)
    IN Sum(1)

\* the value of the longest single component wins
aggregate_by_longest_component(segments_group, attribute) ==
    IF attribute \notin DOMAIN segments_group[1] THEN None
    ELSE LET rows == {i \in 1..Len(segments_group) : notna(segments_group[i][attribute])}
             len(i) == calculate_segment_length(segments_group[i]["geometry"])
         IN IF rows = {} THEN None
            ELSE segments_group[CHOOSE i \in rows :
                                   /\ \A j \in rows : len(j) <= len(i)
                                   /\ \A j \in rows : j < i => len(j) < len(i)][attribute]

aggregate_by_longest_section(segments_group, attribute) ==
    IF attribute \notin DOMAIN segments_group[1] THEN None
    ELSE LET values == NonNull(segments_group, attribute)
             len(k) == value_length(segments_group, attribute, values[k])
         IN IF values = <<>> THEN None
            \* max() keeps the first key in insertion order among the greatest
            ELSE Some(values[CHOOSE k \in 1..Len(values) :
                                /\ \A j \in 1..Len(values) : len(j) <= len(k)
                                /\ \A j \in 1..(k - 1) : len(j) < len(k)])

\* the worst-case attributes follow the longest section as well
aggregate_by_worst_case_longest(segments_group, attribute) ==
    aggregate_by_longest_section(segments_group, attribute)

aggregate_by_worst_case(segments_group, attribute) ==
    IF attribute \notin DOMAIN segments_group[1] THEN None
    ELSE LET values == NonNull(segments_group, attribute)
         IN IF values = <<>> THEN None
            ELSE IF attribute = "breite"
                 THEN Some(CHOOSE m \in Range(values) : \A n \in Range(values) : m <= n)
            ELSE IF attribute = "nutz_beschr" THEN Some(find_worst_nutz_beschr(values))
            ELSE Some(find_worst_trennstreifen(values))

aggregate_tilda_attributes(segments_group, attribute) ==
    IF attribute \notin DOMAIN segments_group[1] THEN None
    ELSE LET values == {v \in Range(NonNull(segments_group, attribute)) :
                           v # "" /\ Lower(v) # "nan" /\ Lower(v) # "none"}
         IN IF values = {} THEN None ELSE Some(Join(Sorted(values), ";"))

aggregate_edge_group(edge_group) ==
    LET first == edge_group[1]
        merged_geom == linemerge(Geometries(edge_group))
        aggregated ==
            IF Len(edge_group) = 1 THEN first
            ELSE [c \in DOMAIN first |->
                    IF c = "geometry" THEN merged_geom
                    ELSE IF StartsWith(c, "tilda_") THEN aggregate_tilda_attributes(edge_group, c)
                    ELSE IF c \in Range(WORST_CASE_ATTRIBUTES)
                         THEN aggregate_by_worst_case(edge_group, c)
                    ELSE IF c \in Range(LONGEST_SECTION_ATTRIBUTES)
                         THEN aggregate_by_longest_section(edge_group, c)
                    ELSE first[c]]
    IN With(aggregated, "Länge",
            Some(RoundMetres(calculate_segment_length(aggregated["geometry"]))))

\* the groups of groupby(keys) with the default sort=True: in key order
SortedGroups(gdf, by) ==
    LET Key(row) == [k \in 1..Len(by) |-> row[by[k]]]
        rows == {i \in 1..Len(gdf) : \A k \in 1..Len(by) : notna(gdf[i][by[k]])}
        groups == GroupBy(gdf, [i \in 1..Len(gdf) |-> Key(gdf[i])], rows)
        keys == [g \in 1..Len(groups) |-> Key(groups[g][1])]
        \* element_nr is a string, ri a number
        KeyLess(a, b) ==
            \/ StrLess(Val(a[1]), Val(b[1]))
            \/ /\ a[1] = b[1]
               /\ Len(by) > 1
               /\ Val(a[2]) < Val(b[2])
        rank == [g \in 1..Len(groups) |->
                    Cardinality({h \in 1..Len(groups) : KeyLess(keys[h], keys[g])})]
    IN [r \in 1..Len(groups) |-> groups[CHOOSE g \in 1..Len(groups) : rank[g] = r - 1]]

DropColumns(row, cols) == [c \in DOMAIN row \ cols |-> row[c]]

\* every merged section becomes an edge of its own
aggregate_network_per_section(gdf) ==
    [g \in 1..Len(gdf) |-> DropColumns(aggregate_edge_group(<<gdf[g]>>), COLUMNS_TO_DROP)]

aggregate_network(gdf) ==
    LET grouped == IF Len(gdf) = 0 THEN <<>>
                   ELSE IF "ri" \notin DOMAIN gdf[1] THEN SortedGroups(gdf, <<"element_nr">>)
                   ELSE SortedGroups(gdf, <<"element_nr", "ri">>)
    IN [g \in 1..Len(grouped) |->
          DropColumns(aggregate_edge_group(grouped[g]), COLUMNS_TO_DROP)]

\* the 'gem' cells of the districts of "Berlin Bezirke.gpkg", in file order
Bezirke == <<Some("11000001"), Some("11000002"), Some("11000012")>>

\* the district the loop over the districts leaves in assigned_district
assigned_district(edge_geom, districts) ==
    LET RECURSIVE Loop(_, _, _)
        Loop(k, max_intersection_length, assigned) ==
            IF k > Len(districts) THEN assigned
            ELSE IF edge_geom.inter[k] = -1
                 THEN Loop(k + 1, max_intersection_length, assigned)
            ELSE IF edge_geom.inter[k] > max_intersection_length
                 THEN Loop(k + 1, edge_geom.inter[k],
                           IF notna(districts[k])
                           THEN Some(SubSeq(Val(districts[k]), Len(Val(districts[k])) - 1,
                                            Len(Val(districts[k]))))
                           ELSE None)
            ELSE Loop(k + 1, max_intersection_length, assigned)
    IN Loop(1, 0, None)

assign_district_to_edges(edges_gdf, districts) ==
    [i \in 1..Len(edges_gdf) |->
        With(edges_gdf[i], "Bezirksnummer",
             assigned_district(edges_gdf[i]["geometry"], districts))]

add_afid_column(gdf) == [i \in 1..Len(gdf) |-> With(gdf[i], "afid", Some(i))]

\* the layers keep the numbering of the whole result
write_layers_one_counter(gdf) ==
    LET IsRi0(row) == row["ri"] = Some(0)
        IsRi1(row) == row["ri"] = Some(1)
    IN [l \in (IF Len(SelectSeq(gdf, IsRi0)) > 0 THEN {"hinrichtung"} ELSE {})
               \cup (IF Len(SelectSeq(gdf, IsRi1)) > 0 THEN {"gegenrichtung"} ELSE {}) |->
           IF l = "hinrichtung" THEN SelectSeq(gdf, IsRi0) ELSE SelectSeq(gdf, IsRi1)]

\* the layers process() writes: a layer is written only when it has rows
write_layers(gdf) ==
    LET IsRi0(row) == row["ri"] = Some(0)
        IsRi1(row) == row["ri"] = Some(1)
        ri_0_gdf == add_afid_column(SelectSeq(gdf, IsRi0))
        ri_1_gdf == add_afid_column(SelectSeq(gdf, IsRi1))
    IN IF Len(gdf) > 0 /\ "ri" \notin DOMAIN gdf[1] THEN [l \in {"aggregated_edges"} |-> gdf]
       ELSE [l \in (IF Len(ri_0_gdf) > 0 THEN {"hinrichtung"} ELSE {})
                   \cup (IF Len(ri_1_gdf) > 0 THEN {"gegenrichtung"} ELSE {}) |->
               IF l = "hinrichtung" THEN ri_0_gdf ELSE ri_1_gdf]

-----------------------------------------------------------------------------
(* Inputs of the translator                                                *)

\* a way of the bikelanes file as TILDA exports it
BikelaneRow ==
    ("id" :> Some("way/1")) @@ ("name" :> Some("Weserstraße")) @@
    ("oneway" :> Some("yes")) @@ ("category" :> Some("cycleway_adjoining")) @@
    ("traffic_sign" :> Some("DE:237")) @@ ("surface" :> Some("asphalt")) @@
    ("surface_color" :> None) @@ ("width" :> Some("2.5")) @@
    ("lit" :> Some("yes")) @@ ("geometry" :> [id |-> 1, angle |-> 0])

\* the cells one column of the row takes in the modelled files
FieldValues ==
    [oneway |-> {None, NaN, Some(""), Some("no"), Some("car_not_bike"), Some("assumed_no"),
                 Some("implicit_yes"), Some("nil"), Some("yes_dual_carriageway"),
                 Some("-1"), Some(" yes ")},
     oneway_bicycle |-> {Some("no"), Some("yes")},
     category |-> {None, Some("cyclewayOnHighway_exclusive"),
                   Some("cyclewayOnHighwayBetweenLanes"), Some("sharedBusLaneBikeWithBus"),
                   Some("cyclewayOnHighwayProtected"), Some("cyclewayOnHighway_advisory"),
                   Some("bicycleRoad"), Some("bicycleRoad_vehicleDestination"),
                   Some("footAndCyclewayShared_adjoining"),
                   Some("footAndCyclewaySegregated_isolated"),
                   Some("cyclewaySeparated_adjoining"), Some("footwayBicycleYes_isolated"),
                   Some("pedestrianAreaBicycleYes"), Some("crossing"),
                   Some("needsClarification"), Some("sharedMotorVehicleLane")},
     traffic_sign |-> {None, NaN, Some("none"), Some("DE:240"), Some("DE:241-30"),
                       Some("DE:239,1022-10"), Some("DE:242.1,1022-10"), Some("DE:2401"),
                       Some("240"), Some("DE:1012-32"), Some("DE:237,Radwegschäden"),
                       Some("DE:254")},
     surface |-> {None, NaN, Some(""), Some("Asphalt"), Some("concrete:plates"),
                  Some("paving_stones"), Some("sett"), Some("gravel"), Some("paved"),
                  Some("none"), Some("tartan")},
     surface_color |-> {Some("red"), Some("Green"), Some("blue"), NaN},
     width |-> {None, NaN, Some("2.5 m"), Some("1.96"), Some("2;3"), Some("3 meter"),
                Some("breit"), Some("")}]

Varied(row, col) == {With(row, col, v) : v \in FieldValues[col]}

\* rows of the categories whose translation reads the side columns; the
\* marking is the same on both sides
SideRows ==
    {[c \in DOMAIN BikelaneRow \cup
            {"separation_left", "separation_right", "marking_left", "marking_right",
             "traffic_mode_right", "buffer_right"} |->
        CASE c = "category" -> category
          [] c = "separation_left" -> separation_left
          [] c = "separation_right" -> separation_right
          [] c = "marking_left" -> marking
          [] c = "marking_right" -> marking
          [] c = "traffic_mode_right" -> traffic_mode_right
          [] c = "buffer_right" -> buffer_right
          [] OTHER -> BikelaneRow[c]] :
        category \in {Some("cyclewayOnHighwayProtected"), Some("bicycleRoad"),
                      Some("cycleway_adjoining")},
        separation_left \in {None, Some("bollard"), Some("no"), Some("fence")},
        separation_right \in {None, Some("vertical_panel")},
        marking \in {None, Some("barred_area"), Some("dashed_line")},
        traffic_mode_right \in {None, Some("parking")},
        buffer_right \in {None, Some("0.6"), Some("0.59"), Some("x")}}

\* rows of the categories whose translation reads the traffic sign
SignRows ==
    {With(With(BikelaneRow, "category", category), "traffic_sign", traffic_sign) :
        category \in {Some("footAndCyclewayShared_adjoining"),
                      Some("footwayBicycleYes_isolated"), Some("pedestrianAreaBicycleYes")},
        traffic_sign \in FieldValues["traffic_sign"]}

RawRows ==
    {BikelaneRow} \cup SideRows \cup SignRows \cup
    UNION {Varied(BikelaneRow, col) : col \in DOMAIN FieldValues}

\* the translated files hold the rows of one source each
OneFile(data_source, rows) ==
    [s \in Range(DataSources) |-> IF s = data_source THEN rows ELSE <<>>]

NoFiles == [s \in Range(DataSources) |-> <<>>]

-----------------------------------------------------------------------------
(* The network                                                             *)

\* the edges of the network in file order
ElementNrs == <<"45460015_45460020.01", "45460003_45460015.01">>

\* a TILDA way within the buffer of the segment, one within the bounds of
\* the buffer only, and one the spatial index does not return
Near == [d |-> 5, mid |-> 5, bbox |-> TRUE]
Far == [d |-> 30, mid |-> 32, bbox |-> TRUE]
Outside == [d |-> 60, mid |-> 60, bbox |-> FALSE]

\* CONFIG_SEGMENT_LENGTH in centimetres
SegmentLength == 250

\* the part of a segment inside each district: the first element lies in
\* the first district, the second half in the second and half in the third
InterOf(element, length) ==
    IF element = 1 THEN <<length, -1, -1>> ELSE <<-1, length \div 2, length \div 2>>

\* the line of a network row: it runs from position from over length
\* centimetres along the axis of its element
Segment(element, angle, from, length, rel) ==
    ("element_nr" :> Some(ElementNrs[element])) @@
    ("beginnt_bei_vp" :> Some("45460003")) @@ ("endet_bei_vp" :> Some("45460015")) @@
    ("strassenname" :> Some("Weserstraße")) @@ ("okstra_id" :> Some("E1")) @@
    ("geometry" :> [angle |-> angle, length |-> length, rel |-> rel,
                    inter |-> InterOf(element, length),
                    pieces |-> <<<<from, from + length>>>>])

SeqsUpTo(S, n) == UNION {[1..k -> S] : k \in 1..n}

\* split_network_into_segments: the segmented networks of up to max segments
\* next to the ways 1..n; the segments of an edge follow each other, the
\* edges are in file order
Networks(n, rels, max) ==
    {[i \in 1..Len(cut) |->
         Segment(cut[i][1], 0,
                 SegmentLength * Cardinality({j \in 1..(i - 1) : cut[j][1] = cut[i][1]}),
                 SegmentLength, cut[i][2])] :
        cut \in {c \in SeqsUpTo((1..Len(ElementNrs)) \X [1..n -> rels], max) :
                    \A i \in 1..(Len(c) - 1) : c[i][1] <= c[i + 1][1]}}

\* int(np.ceil(a / b)) for positive integers
Ceil(a, b) == (a + b - 1) \div b

\* the segments of one network row: n_seg equal parts between the
\* breakpoints of np.linspace, each with the attributes of the row
segments_of(row, segment_length) ==
    LET geom == row["geometry"]
        start == geom.pieces[1][1]
        n_seg == IF Ceil(geom.length, segment_length) < 1 THEN 1
                 ELSE Ceil(geom.length, segment_length)
        breakpoints == [i \in 0..n_seg |-> start + (i * geom.length) \div n_seg]
    IN [i \in 1..n_seg |->
          With(row, "geometry",
               [angle |-> geom.angle,
                length |-> breakpoints[i] - breakpoints[i - 1],
                rel |-> geom.rel,
                inter |-> [k \in DOMAIN geom.inter |->
                             IF geom.inter[k] = -1 THEN -1
                             ELSE (geom.inter[k] * (breakpoints[i] - breakpoints[i - 1]))
                                  \div geom.length],
                pieces |-> <<<<breakpoints[i - 1], breakpoints[i]>>>>])]

split_network_into_segments(net_gdf, segment_length) ==
    Concat([e \in 1..Len(net_gdf) |-> segments_of(net_gdf[e], segment_length)])

-----------------------------------------------------------------------------
(* The stages of the pipeline                                              *)

\* start_snapping.py process(): the network is cut into segments
SplitNetwork ==
    /\ pc = "split"
    /\ net_segmented' = split_network_into_segments(net, SegmentLength)
    /\ pc' = "snap"
    /\ UNCHANGED <<gdf_in, translated, retranslated, osm, seg_idx, snapped_records,
                   out_gdf, result_gdf, layers>>
    /\ UNCHANGED run_vars

\* translate_attributes_tilda_to_rvn.py main(): every input file is translated
Translate ==
    /\ pc = "translate"
    /\ translated' = [s \in Range(DataSources) |-> translate_tilda_attributes(gdf_in[s], s)]
    /\ pc' = "match"
    /\ UNCHANGED <<gdf_in, retranslated, osm, net_segmented, seg_idx, snapped_records,
                   out_gdf, result_gdf, layers>>
    /\ UNCHANGED run_vars

\* the translator run on its own output files
Retranslate ==
    /\ pc = "match"
    /\ retranslated' = [s \in Range(DataSources) |->
                           translate_tilda_attributes(translated[s], s)]
    /\ pc' = "retranslated"
    /\ UNCHANGED <<gdf_in, translated, osm, net_segmented, seg_idx, snapped_records,
                   out_gdf, result_gdf, layers>>
    /\ UNCHANGED run_vars

\* start_matching.py main(): the translated ways become matched_tilda_ways
Combine ==
    /\ pc = "match"
    /\ osm' = combine_multiple_datasets(translated)
    /\ pc' = "snap"
    /\ UNCHANGED <<gdf_in, translated, retranslated, net_segmented, seg_idx,
                   snapped_records, out_gdf, result_gdf, layers>>
    /\ UNCHANGED run_vars

\* start_snapping.py: one pass of the loop over the segments
SnapSegment ==
    /\ pc = "snap"
    /\ seg_idx < Len(net_segmented)
    /\ snapped_records' = snapped_records \o
           snap_segment(net_segmented[seg_idx + 1], osm, CONFIG_BUFFER_DEFAULT)
    /\ seg_idx' = seg_idx + 1
    /\ UNCHANGED <<pc, gdf_in, translated, retranslated, osm, net_segmented, out_gdf,
                   result_gdf, layers>>
    /\ UNCHANGED run_vars

\* start_snapping.py process(): after the loop the variants are merged,
\* cleaned, numbered and written
MergeSegments ==
    /\ pc = "snap"
    /\ seg_idx = Len(net_segmented)
    /\ out_gdf' = finish_snapping(snapped_records)
    /\ pc' = "aggregate"
    /\ UNCHANGED <<gdf_in, translated, retranslated, osm, net_segmented, seg_idx,
                   snapped_records, result_gdf, layers>>
    /\ UNCHANGED run_vars

\* aggregate_final_model.py process(): aggregation
AggregateNetwork ==
    /\ pc = "aggregate"
    /\ result_gdf' = aggregate_network(out_gdf)
    /\ pc' = "districts"
    /\ UNCHANGED <<gdf_in, translated, retranslated, osm, net_segmented, seg_idx,
                   snapped_records, out_gdf, layers>>
    /\ UNCHANGED run_vars

\* aggregate_final_model.py process(): district assignment.  The function
\* writes the column into the frame it is called with and returns that frame.
AssignDistricts ==
    /\ pc = "districts"
    /\ edges_frame' = assign_district_to_edges(result_gdf, Bezirke)
    /\ result_gdf' = edges_frame'
    /\ pc' = "write"
    /\ UNCHANGED <<gdf_in, translated, retranslated, osm, net_segmented, seg_idx,
                   snapped_records, out_gdf, layers>>
    /\ UNCHANGED <<net, combined_gdf, pool, log_candidates, disk, exit_status, manual,
                   previous_records, matcher, elem>>

\* aggregate_final_model.py process(): afid and the direction layers
WriteLayers ==
    /\ pc = "write"
    /\ result_gdf' = add_afid_column(result_gdf)
    /\ layers' = write_layers(add_afid_column(result_gdf))
    /\ pc' = "done"
    /\ UNCHANGED <<gdf_in, translated, retranslated, osm, net_segmented, seg_idx,
                   snapped_records, out_gdf>>
    /\ UNCHANGED run_vars

Next ==
    \/ Translate
    \/ Combine
    \/ SnapSegment
    \/ MergeSegments
    \/ AggregateNetwork
    \/ AssignDistricts
    \/ WriteLayers

-----------------------------------------------------------------------------
(* The pipeline on every modelled row of the translator: one way next to   *)
(* an edge of two segments, the second of them too far from the way        *)

InitTranslate ==
    /\ pc = "translate"
    /\ \E data_source \in Range(DataSources), row \in RawRows :
           gdf_in = OneFile(data_source, <<row>>)
    /\ translated = NoFiles
    /\ retranslated = NoFiles
    /\ osm = <<>>
    /\ net_segmented = <<Segment(1, 0, 0, SegmentLength, <<Near>>),
                         Segment(1, 0, SegmentLength, SegmentLength, <<Far>>)>>
    /\ seg_idx = 0
    /\ snapped_records = <<>>
    /\ out_gdf = <<>>
    /\ result_gdf = <<>>
    /\ layers = <<>>
    /\ net = net_segmented
    /\ InitRun

NextTranslate == Next \/ Retranslate

SpecTranslate == InitTranslate /\ [][NextTranslate]_vars

-----------------------------------------------------------------------------
(* The pipeline on up to MaxOsm ways next to up to MaxSegs segments        *)

MaxOsm == 1
MaxSegs == 2

\* a street as TILDA exports it
StreetRow ==
    ("id" :> Some("way/1")) @@ ("name" :> Some("Weserstraße")) @@
    ("oneway" :> Some("yes")) @@ ("surface" :> Some("sett")) @@
    ("width" :> Some("6")) @@ ("geometry" :> [id |-> 1, angle |-> 0])

\* the kinds of way that decide how many variants a segment gets
WayKinds ==
    <<[data_source |-> "bikelanes", row |-> BikelaneRow],
      [data_source |-> "bikelanes", row |-> With(BikelaneRow, "oneway", Some("no"))],
      [data_source |-> "streets", row |-> StreetRow],
      [data_source |-> "streets", row |-> With(StreetRow, "oneway", Some("yes_dual_carriageway"))]>>

\* a kind and a bearing; the bearing matters for the one-way kinds only
WayChoices ==
    {c \in (1..Len(WayKinds)) \X {0, 180} :
        c[2] = 180 => WayKinds[c[1]].row["oneway"] \in {Some("yes"), Some("yes_dual_carriageway")}}

WayIds == <<"way/1", "way/2", "way/3">>

\* way number i of kind k with bearing angle
Way(i, k, angle) ==
    With(With(WayKinds[k].row, "id", Some(WayIds[i])), "geometry", [id |-> i, angle |-> angle])

\* the input files holding the ways: choice[i] = <<kind, bearing>> of way i
FilesOf(choice) ==
    [s \in Range(DataSources) |->
        LET RECURSIVE Pick(_)
            Pick(i) == IF i > Len(choice) THEN <<>>
                       ELSE (IF WayKinds[choice[i][1]].data_source = s
                             THEN <<Way(i, choice[i][1], choice[i][2])>> ELSE <<>>)
                            \o Pick(i + 1)
        IN Pick(1)]

Init ==
    /\ pc = "translate"
    /\ \E n \in 1..MaxOsm :
          /\ \E choice \in [1..n -> WayChoices] : gdf_in = FilesOf(choice)
          /\ net_segmented \in Networks(n, {Near, Far}, MaxSegs)
    /\ translated = NoFiles
    /\ retranslated = NoFiles
    /\ osm = <<>>
    /\ seg_idx = 0
    /\ snapped_records = <<>>
    /\ out_gdf = <<>>
    /\ result_gdf = <<>>
    /\ layers = <<>>
    /\ net = net_segmented
    /\ InitRun

Spec == Init /\ [][Next]_vars

-----------------------------------------------------------------------------
(* Variant creation: the snapping loop on one segment next to up to        *)
(* MaxCand ways, followed by a segment of the next edge                    *)

MaxCand == 2

\* a way within the buffer whose distance to the midpoint is greater
NearEnd == [d |-> 5, mid |-> 12, bbox |-> TRUE]

\* the translated and combined ways of the input files
Matched(files) ==
    combine_multiple_datasets(
        [s \in Range(DataSources) |-> translate_tilda_attributes(files[s], s)])

InitVariants ==
    /\ pc = "snap"
    /\ \E n \in 1..MaxCand :
          /\ \E choice \in [1..n -> WayChoices] :
                /\ gdf_in = FilesOf(choice)
                /\ translated = [s \in Range(DataSources) |->
                                    translate_tilda_attributes(FilesOf(choice)[s], s)]
                /\ osm = Matched(FilesOf(choice))
          /\ \E angle \in {0, 90}, rel \in [1..n -> {Near, NearEnd, Far, Outside}] :
                net_segmented = <<Segment(1, angle, 0, SegmentLength, rel),
                                  Segment(2, 0, 0, SegmentLength, [w \in 1..n |-> Near])>>
    /\ retranslated = NoFiles
    /\ seg_idx = 0
    /\ snapped_records = <<>>
    /\ out_gdf = <<>>
    /\ result_gdf = <<>>
    /\ layers = <<>>
    /\ net = net_segmented
    /\ InitRun

NextVariants == SnapSegment \/ MergeSegments

SpecVariants == InitVariants /\ [][NextVariants]_vars

-----------------------------------------------------------------------------
(* Aggregation: aggregate_final_model.py on a snapping output of up to     *)
(* MaxRows sections of one edge                                            *)

MaxRows == 3

\* two-way bikelanes that differ in surface, separation strip and width
SectionWays ==
    <<With(BikelaneRow, "oneway", Some("no")),
      [c \in DOMAIN BikelaneRow \cup {"traffic_mode_right"} |->
          CASE c = "oneway" -> Some("no")
            [] c = "id" -> Some("way/2")
            [] c = "category" -> Some("cyclewayOnHighway_exclusive")
            [] c = "traffic_sign" -> None
            [] c = "surface" -> Some("paving_stones")
            [] c = "surface_color" -> Some("red")
            [] c = "width" -> Some("1.5")
            [] c = "traffic_mode_right" -> Some("parking")
            [] OTHER -> BikelaneRow[c]],
      [c \in DOMAIN BikelaneRow \cup {"traffic_mode_right", "buffer_right"} |->
          CASE c = "oneway" -> Some("no")
            [] c = "id" -> Some("way/3")
            [] c = "width" -> Some("2")
            [] c = "traffic_mode_right" -> Some("parking")
            [] c = "buffer_right" -> Some("0.75")
            [] OTHER -> BikelaneRow[c]]>>

\* the sections: the way next to the section (0: none), the direction, the
\* length, the lengths of the intersections with the districts and the
\* 'bezirk' cell of the input file
Sections ==
    <<[way |-> 3, ri |-> 0, from |-> 0, length |-> 4000, inter |-> <<4000, -1, -1>>,   bezirk |-> Some("08")],
      [way |-> 2, ri |-> 0, from |-> 4000, length |-> 3000, inter |-> <<-1, 3000, -1>>,   bezirk |-> Some("07")],
      [way |-> 1, ri |-> 0, from |-> 7000, length |-> 8000, inter |-> <<-1, 4000, 4000>>, bezirk |-> Some("08")],
      [way |-> 2, ri |-> 0, from |-> 15000, length |-> 10000, inter |-> <<10000, -1, -1>>,  bezirk |-> Some("07")],
      [way |-> 1, ri |-> 0, from |-> 25000, length |-> 12000, inter |-> <<0, -1, -1>>,      bezirk |-> Some("08")],
      [way |-> 2, ri |-> 0, from |-> 37000, length |-> 8000, inter |-> <<-1, -1, -1>>,     bezirk |-> None],
      [way |-> 0, ri |-> 0, from |-> 45000, length |-> 12000, inter |-> <<-1, 0, 12000>>,   bezirk |-> None],
      [way |-> 3, ri |-> 1, from |-> 57000, length |-> 4000, inter |-> <<0, -1, -1>>,      bezirk |-> Some("08")],
      [way |-> 2, ri |-> 1, from |-> 61000, length |-> 3000, inter |-> <<3000, -1, -1>>,   bezirk |-> Some("07")],
      [way |-> 0, ri |-> 1, from |-> 64000, length |-> 10000, inter |-> <<-1, -1, -1>>,     bezirk |-> None],
      [way |-> 1, ri |-> 1, from |-> 74000, length |-> 8000, inter |-> <<4000, 4000, -1>>, bezirk |-> Some("08")]>>

\* the variant of the direction the snapping loop creates for the section
SectionRecord(section) ==
    LET seg_dict == With(Segment(1, 0, section.from, section.length, <<Near>>), "geometry",
                         [angle |-> 0, length |-> section.length, rel |-> <<Near>>,
                          inter |-> section.inter,
                          pieces |-> <<<<section.from, section.from + section.length>>>>])
        ways == IF section.way = 0 THEN <<>>
                ELSE Matched(OneFile("bikelanes", <<SectionWays[section.way]>>))
        variants == snap_segment(seg_dict, ways, CONFIG_BUFFER_DEFAULT)
    IN With(variants[section.ri + 1], "bezirk", section.bezirk)

SectionRecords == [s \in 1..Len(Sections) |-> SectionRecord(Sections[s])]

InitAggregate ==
    /\ pc = "aggregate"
    /\ \E picked \in SeqsUpTo(1..Len(Sections), MaxRows) :
          out_gdf = finish_snapping([i \in 1..Len(picked) |-> SectionRecords[picked[i]]])
    /\ gdf_in = NoFiles
    /\ translated = NoFiles
    /\ retranslated = NoFiles
    /\ osm = <<>>
    /\ net_segmented = <<>>
    /\ seg_idx = 0
    /\ snapped_records = <<>>
    /\ result_gdf = <<>>
    /\ layers = <<>>
    /\ net = net_segmented
    /\ InitRun

NextAggregate == AggregateNetwork \/ AssignDistricts \/ WriteLayers

SpecAggregate == InitAggregate /\ [][NextAggregate]_vars

-----------------------------------------------------------------------------
(* Segmentation and merge: a network of up to MaxEdges edges, several of   *)
(* which may belong to the same element, next to one two-way cycle track   *)

MaxEdges == 2

\* the edges of the enriched network: element, position, length and whether
\* the cycle track runs next to it
EdgeChoices ==
    ((1..Len(ElementNrs)) \X {0, 600} \X {200, 500, 600} \X {Near})
    \cup ((1..Len(ElementNrs)) \X {0, 600} \X {200} \X {Outside})

TrackFile == OneFile("bikelanes", <<With(BikelaneRow, "oneway", Some("no"))>>)

InitMerge ==
    /\ pc = "split"
    /\ \E edges \in SeqsUpTo(EdgeChoices, MaxEdges) :
          net = [e \in 1..Len(edges) |->
                    Segment(edges[e][1], 0, edges[e][2], edges[e][3], <<edges[e][4]>>)]
    /\ gdf_in = TrackFile
    /\ translated = [s \in Range(DataSources) |-> translate_tilda_attributes(TrackFile[s], s)]
    /\ retranslated = NoFiles
    /\ osm = Matched(TrackFile)
    /\ net_segmented = <<>>
    /\ seg_idx = 0
    /\ snapped_records = <<>>
    /\ out_gdf = <<>>
    /\ result_gdf = <<>>
    /\ layers = <<>>
    /\ InitRun

NextMerge == SplitNetwork \/ SnapSegment \/ MergeSegments

SpecMerge == InitMerge /\ [][NextMerge]_vars

-----------------------------------------------------------------------------
(* The stitcher and the tests of the snapping output: the combined network *)
(* holds the edge of the test case next to a protected bike lane           *)

\* enrich_rvn_with_detailnetz.py
EXCLUDED_ELEMENT_NRS == <<"48500463_49500011.01">>

filter_excluded_elements(gdf) ==
    LET Kept(row) == row["element_nr"] = None
                     \/ Val(row["element_nr"]) \notin Range(EXCLUDED_ELEMENT_NRS)
    IN IF EXCLUDED_ELEMENT_NRS = <<>> THEN gdf ELSE SelectSeq(gdf, Kept)

\* enrich_rvn_with_detailnetz.py main(): the combined network is filtered
\* and saved as the network of the snapping stage
SaveEnriched ==
    /\ pc = "stitch"
    /\ net' = filter_excluded_elements(combined_gdf)
    /\ pc' = "split"
    /\ UNCHANGED <<gdf_in, translated, retranslated, osm, net_segmented, seg_idx,
                   snapped_records, out_gdf, result_gdf, layers, combined_gdf>>
    /\ UNCHANGED pool_vars
    /\ UNCHANGED disk_vars
    /\ UNCHANGED stage_vars

\* run_tests.py validate_attributes and validate_geometry
validate_attributes(feature, expected_attrs) ==
    \A attr_name \in DOMAIN expected_attrs :
        /\ attr_name \in DOMAIN feature
        /\ notna(feature[attr_name])
        /\ Val(feature[attr_name]) = expected_attrs[attr_name]

validate_geometry(feature, geometry_reqs) ==
    "min_length_meters" \in DOMAIN geometry_reqs =>
        feature["geometry"].length >= 100 * geometry_reqs["min_length_meters"]

\* run_tests.py test_snapping_data in the mode any_segment: the test case
\* succeeds
test_snapping_data(gdf, test_case) ==
    LET matching_features ==
            {i \in 1..Len(gdf) : gdf[i]["element_nr"] = Some(test_case.element_nr)}
    IN /\ matching_features # {}
       /\ \E i \in matching_features :
             validate_attributes(gdf[i], test_case.expected_attributes)
       /\ \E i \in matching_features :
             validate_geometry(gdf[i], test_case.geometry_requirements)

\* the test case of the protected bike lane
ProtectedLaneCase ==
    [element_nr |-> "48500463_49500011.01",
     expected_attributes |-> ("fuehr" :> "Geschützter Radfahrstreifen")
                             @@ ("protek" :> "Poller (auf Sperrfläche)"),
     geometry_requirements |-> ("min_length_meters" :> 30)]

\* the edge of the test case, of the given length
CaseEdge(length) ==
    With(Segment(1, 0, 0, length, <<Near>>), "element_nr",
         Some(ProtectedLaneCase.element_nr))

\* a protected bike lane behind bollards on a barred area
ProtectedLane ==
    With(With(With(With(BikelaneRow, "category", Some("cyclewayOnHighwayProtected")),
                   "oneway", Some("no")),
              "separation_left", Some("bollard")),
         "marking_left", Some("barred_area"))

LaneFiles == {OneFile("bikelanes", <<ProtectedLane>>), TrackFile}

MaxStitched == 2

InitStitch ==
    /\ pc = "stitch"
    /\ combined_gdf \in SeqsUpTo({CaseEdge(3000), CaseEdge(2000),
                                   Segment(1, 0, 0, 500, <<Near>>),
                                   Segment(2, 0, 0, 500, <<Outside>>)}, MaxStitched)
    /\ \E files \in LaneFiles :
          /\ gdf_in = files
          /\ translated = [s \in Range(DataSources) |->
                              translate_tilda_attributes(files[s], s)]
          /\ osm = Matched(files)
    /\ retranslated = NoFiles
    /\ net = <<>>
    /\ net_segmented = <<>>
    /\ seg_idx = 0
    /\ snapped_records = <<>>
    /\ out_gdf = <<>>
    /\ result_gdf = <<>>
    /\ layers = <<>>
    /\ pool = IdlePool
    /\ log_candidates = FALSE
    /\ disk = NoCache
    /\ exit_status = -1
    /\ manual = NoMatching
    /\ InitMore

NextStitch == SaveEnriched \/ SplitNetwork \/ SnapSegment \/ MergeSegments

SpecStitch == InitStitch /\ [][NextStitch]_vars

-----------------------------------------------------------------------------
(* The two paths of the snapping loop: a network of up to MaxPoolSegs      *)
(* segments, sequential or on the worker pool                              *)

Batches == batch_data_list(net_segmented, osm, CONFIG_BUFFER_DEFAULT)

\* process(): the choice between the sequential and the parallel path
Dispatch ==
    /\ pc = "dispatch"
    /\ pc' = IF log_candidates \/ Len(net_segmented) < CONFIG_BATCH_SIZE * 2
             THEN "sequential" ELSE "parallel"
    /\ pool' = IdlePool
    /\ UNCHANGED <<gdf_in, translated, retranslated, osm, net_segmented, seg_idx,
                   snapped_records, out_gdf, result_gdf, layers, net, combined_gdf,
                   log_candidates>>
    /\ UNCHANGED disk_vars
    /\ UNCHANGED stage_vars

\* process(): one pass of the sequential loop over the batches
SequentialBatch ==
    /\ pc = "sequential"
    /\ seg_idx < Len(net_segmented)
    /\ LET batch_start == seg_idx
           batch_end == Min(batch_start + CONFIG_BATCH_SIZE, Len(net_segmented))
           segments_batch == SubSeq(net_segmented, batch_start + 1, batch_end)
       IN /\ snapped_records' = snapped_records \o
                 process_segments_batch(segments_batch, osm, CONFIG_BUFFER_DEFAULT)
          /\ seg_idx' = batch_end
          /\ pc' = IF batch_end = Len(net_segmented) THEN "snap" ELSE pc
    /\ UNCHANGED <<gdf_in, translated, retranslated, osm, net_segmented, out_gdf,
                   result_gdf, layers>>
    /\ UNCHANGED run_vars

\* mp.Pool: an idle worker takes the next batch in the order of submission
WorkerTake ==
    /\ pc = "parallel"
    /\ pool.handed < Len(Batches)
    /\ Cardinality(pool.running) < CONFIG_CPU_CORES
    /\ pool' = [pool EXCEPT !.handed = @ + 1, !.running = @ \cup {pool.handed + 1}]
    /\ UNCHANGED <<pc, gdf_in, translated, retranslated, osm, net_segmented, seg_idx,
                   snapped_records, out_gdf, result_gdf, layers, net, combined_gdf,
                   log_candidates>>
    /\ UNCHANGED disk_vars
    /\ UNCHANGED stage_vars

\* mp.Pool: a worker delivers the result of its batch
WorkerFinish ==
    /\ pc = "parallel"
    /\ \E b \in pool.running :
          pool' = [pool EXCEPT
                      !.running = @ \ {b},
                      !.outqueue = Append(@, <<b, process_segments_batch_parallel(
                                                      Batches[b])>>)]
    /\ UNCHANGED <<pc, gdf_in, translated, retranslated, osm, net_segmented, seg_idx,
                   snapped_records, out_gdf, result_gdf, layers, net, combined_gdf,
                   log_candidates>>
    /\ UNCHANGED disk_vars
    /\ UNCHANGED stage_vars

\* process(): one pass of the loop over pool.imap
CollectResult ==
    /\ pc = "parallel"
    /\ LET i == imap_next(pool.outqueue, pool.yielded)
       IN /\ i # 0
          /\ snapped_records' = snapped_records \o pool.outqueue[i][2]
          /\ seg_idx' = seg_idx + Len(Batches[pool.yielded + 1][1])
          /\ pool' = [pool EXCEPT !.yielded = @ + 1]
          /\ pc' = IF pool.yielded + 1 = Len(Batches) THEN "snap" ELSE pc
    /\ UNCHANGED <<gdf_in, translated, retranslated, osm, net_segmented, out_gdf,
                   result_gdf, layers, net, combined_gdf, log_candidates>>
    /\ UNCHANGED disk_vars
    /\ UNCHANGED stage_vars

\* the longest network has three batches, the last of them a short one
MaxPoolSegs == 2 * CONFIG_BATCH_SIZE + 1

\* the segments: two of the first element, one with the cycle track next to
\* it and one without, and one of the second element
PoolSegments == {Segment(1, 0, 0, SegmentLength, <<Near>>),
                 Segment(1, 0, 0, SegmentLength, <<Outside>>),
                 Segment(2, 0, 0, SegmentLength, <<Near>>)}

InitPool ==
    /\ pc = "dispatch"
    /\ net_segmented \in SeqsUpTo(PoolSegments, MaxPoolSegs)
    /\ log_candidates \in BOOLEAN
    /\ gdf_in = TrackFile
    /\ translated = [s \in Range(DataSources) |-> translate_tilda_attributes(TrackFile[s], s)]
    /\ retranslated = NoFiles
    /\ osm = Matched(TrackFile)
    /\ seg_idx = 0
    /\ snapped_records = <<>>
    /\ out_gdf = <<>>
    /\ result_gdf = <<>>
    /\ layers = <<>>
    /\ net = net_segmented
    /\ combined_gdf = net
    /\ pool = IdlePool
    /\ disk = NoCache
    /\ exit_status = -1
    /\ manual = NoMatching
    /\ InitMore

NextPool ==
    \/ Dispatch
    \/ SequentialBatch
    \/ WorkerTake
    \/ WorkerFinish
    \/ CollectResult
    \/ MergeSegments

SpecPool == InitPool /\ [][NextPool]_vars

-----------------------------------------------------------------------------
(* Runs of the snapping stage and of the aggregator on one output          *)
(* directory: every run is given a network of its own, a run may be killed *)
(* at any point, and the files of a run stay for the runs after it         *)

Columns(gdf) == IF gdf = <<>> THEN {} ELSE DOMAIN gdf[1]

RequiredFields == {"element_nr", "beginnt_bei_vp", "endet_bei_vp"}

\* only element_nr is looked for
element_nr_missing(net_gdf) == "element_nr" \notin Columns(net_gdf)

\* process(): a required field is no column of the network
required_field_missing(net_gdf) ==
    \E fld \in RequiredFields : fld \notin Columns(net_gdf)

\* to_file writes into the file it is given: while the write goes on the
\* file holds the rows written so far
PartialFiles(rows) ==
    {[rows |-> SubSeq(rows, 1, k), complete |-> FALSE] : k \in 0..(Len(rows) - 1)}

CompleteFile(rows) == [rows |-> rows, complete |-> TRUE]

RunningPcs == {"check", "segment", "writing_seg", "snapstage", "writing_attr", "merge"}

Ended == pc \in {"idle", "exited"}

\* the networks of the runs: two with all required fields, one without
\* endet_bei_vp and one without element_nr
RunNetworks ==
    {<<Segment(1, 0, 0, 2 * SegmentLength, <<Near>>)>>,
     <<Segment(2, 0, 0, SegmentLength, <<Outside>>)>>,
     <<DropColumns(Segment(1, 0, 0, SegmentLength, <<Near>>), {"endet_bei_vp"})>>,
     <<DropColumns(Segment(2, 0, 0, SegmentLength, <<Near>>), {"element_nr"})>>}

\* start_snapping.py process(): the network and the ways are read
StartSnapper ==
    /\ Ended
    /\ net' \in RunNetworks
    /\ net_segmented' = <<>>
    /\ seg_idx' = 0
    /\ snapped_records' = <<>>
    /\ out_gdf' = <<>>
    /\ exit_status' = -1
    /\ pc' = "check"
    /\ UNCHANGED <<gdf_in, translated, retranslated, osm, result_gdf, layers,
                   combined_gdf, pool, log_candidates, disk>>
    /\ UNCHANGED stage_vars

\* process(): the check of the required fields
CheckRequiredFields ==
    /\ pc = "check"
    /\ IF required_field_missing(net)
       THEN pc' = "exited" /\ exit_status' = 1
       ELSE pc' = "segment" /\ UNCHANGED exit_status
    /\ UNCHANGED <<gdf_in, translated, retranslated, osm, net_segmented, seg_idx,
                   snapped_records, out_gdf, result_gdf, layers, net, combined_gdf,
                   pool, log_candidates, disk>>
    /\ UNCHANGED stage_vars

\* process(): the segmented network is read from its file if the file
\* exists; a file that is not complete gives the rows it holds or an error
LoadSegmented ==
    /\ pc = "segment"
    /\ disk.seg # None
    /\ \/ /\ net_segmented' = disk.seg.rows
          /\ pc' = "snapstage"
          /\ UNCHANGED exit_status
       \/ /\ ~disk.seg.complete
          /\ pc' = "exited"
          /\ exit_status' = 1
          /\ UNCHANGED net_segmented
    /\ UNCHANGED <<gdf_in, translated, retranslated, osm, seg_idx, snapped_records,
                   out_gdf, result_gdf, layers, net, combined_gdf, pool, log_candidates,
                   disk>>
    /\ UNCHANGED stage_vars

\* process(): without the file the network is cut into segments and the
\* write of the file begins
WriteSegmented ==
    /\ pc = "segment"
    /\ disk.seg = None
    /\ net_segmented' = split_network_into_segments(net, SegmentLength)
    /\ \E f \in PartialFiles(net_segmented') : disk' = [disk EXCEPT !.seg = f]
    /\ pc' = "writing_seg"
    /\ UNCHANGED <<gdf_in, translated, retranslated, osm, seg_idx, snapped_records,
                   out_gdf, result_gdf, layers, net, combined_gdf, pool, log_candidates,
                   exit_status>>
    /\ UNCHANGED stage_vars

\* to_file returns: the file of the segmented network is complete
SegmentedWritten ==
    /\ pc = "writing_seg"
    /\ disk' = [disk EXCEPT !.seg = CompleteFile(net_segmented)]
    /\ pc' = "snapstage"
    /\ UNCHANGED <<gdf_in, translated, retranslated, osm, net_segmented, seg_idx,
                   snapped_records, out_gdf, result_gdf, layers, net, combined_gdf,
                   pool, log_candidates, exit_status>>
    /\ UNCHANGED stage_vars

\* process(): the attributed segments are read from their file if it exists
LoadAttributed ==
    /\ pc = "snapstage"
    /\ disk.seg_attr # None
    /\ \/ /\ snapped_records' = disk.seg_attr.rows
          /\ pc' = "merge"
          /\ UNCHANGED exit_status
       \/ /\ ~disk.seg_attr.complete
          /\ pc' = "exited"
          /\ exit_status' = 1
          /\ UNCHANGED snapped_records
    /\ UNCHANGED <<gdf_in, translated, retranslated, osm, net_segmented, seg_idx,
                   out_gdf, result_gdf, layers, net, combined_gdf, pool, log_candidates,
                   disk>>
    /\ UNCHANGED stage_vars

\* process(): without the file the segments are snapped and the write of
\* the file begins
WriteAttributed ==
    /\ pc = "snapstage"
    /\ disk.seg_attr = None
    /\ snapped_records' = process_segments_batch(net_segmented, osm, CONFIG_BUFFER_DEFAULT)
    /\ seg_idx' = Len(net_segmented)
    /\ \E f \in PartialFiles(snapped_records') : disk' = [disk EXCEPT !.seg_attr = f]
    /\ pc' = "writing_attr"
    /\ UNCHANGED <<gdf_in, translated, retranslated, osm, net_segmented, out_gdf,
                   result_gdf, layers, net, combined_gdf, pool, log_candidates,
                   exit_status>>
    /\ UNCHANGED stage_vars

\* to_file returns: the file of the attributed segments is complete
AttributedWritten ==
    /\ pc = "writing_attr"
    /\ disk' = [disk EXCEPT !.seg_attr = CompleteFile(snapped_records)]
    /\ pc' = "merge"
    /\ UNCHANGED <<gdf_in, translated, retranslated, osm, net_segmented, seg_idx,
                   snapped_records, out_gdf, result_gdf, layers, net, combined_gdf,
                   pool, log_candidates, exit_status>>
    /\ UNCHANGED stage_vars

\* process(): the segments are merged and the output is written in place of
\* the one before; merge_segments raises an error if there is no group
MergeAndSave ==
    /\ pc = "merge"
    /\ IF finish_snapping(snapped_records) = <<>>
       THEN /\ exit_status' = 1
            /\ UNCHANGED <<out_gdf, disk>>
       ELSE /\ out_gdf' = finish_snapping(snapped_records)
            /\ disk' = [disk EXCEPT !.out = CompleteFile(out_gdf')]
            /\ exit_status' = 0
    /\ pc' = "exited"
    /\ UNCHANGED <<gdf_in, translated, retranslated, osm, net_segmented, seg_idx,
                   snapped_records, result_gdf, layers, net, combined_gdf, pool,
                   log_candidates>>
    /\ UNCHANGED stage_vars

\* the process is killed
Crash ==
    /\ pc \in RunningPcs
    /\ pc' = "exited"
    /\ exit_status' = 137
    /\ UNCHANGED <<gdf_in, translated, retranslated, osm, net_segmented, seg_idx,
                   snapped_records, out_gdf, result_gdf, layers, net, combined_gdf,
                   pool, log_candidates, disk>>
    /\ UNCHANGED stage_vars

\* the inputs of the aggregator: the output of the snapping stage and a
\* file without the column element_nr
AggregatorInputs ==
    (IF disk.out # None THEN {disk.out.rows} ELSE {})
    \cup {<<DropColumns(With(Segment(1, 0, 0, SegmentLength, <<Near>>), "ri", Some(0)),
                         {"element_nr"})>>}

\* aggregate_final_model.py process()
RunAggregator ==
    /\ Ended
    /\ \E gdf \in AggregatorInputs :
          /\ out_gdf' = gdf
          /\ IF "element_nr" \notin Columns(gdf)
             THEN /\ exit_status' = 1
                  /\ UNCHANGED <<result_gdf, layers, edges_frame>>
             ELSE /\ edges_frame' = assign_district_to_edges(aggregate_network(gdf),
                                                           Bezirke)
                  /\ result_gdf' = add_afid_column(edges_frame')
                  /\ layers' = write_layers(result_gdf')
                  /\ exit_status' = 0
    /\ pc' = "exited"
    /\ UNCHANGED <<gdf_in, translated, retranslated, osm, net_segmented, seg_idx,
                   snapped_records, net, combined_gdf, pool, log_candidates, disk>>
    /\ UNCHANGED <<manual, previous_records, matcher, elem>>

InitCache ==
    /\ pc = "idle"
    /\ gdf_in = TrackFile
    /\ translated = [s \in Range(DataSources) |-> translate_tilda_attributes(TrackFile[s], s)]
    /\ retranslated = NoFiles
    /\ osm = Matched(TrackFile)
    /\ net = <<>>
    /\ net_segmented = <<>>
    /\ seg_idx = 0
    /\ snapped_records = <<>>
    /\ out_gdf = <<>>
    /\ result_gdf = <<>>
    /\ layers = <<>>
    /\ combined_gdf = <<>>
    /\ pool = IdlePool
    /\ log_candidates = FALSE
    /\ disk = NoCache
    /\ exit_status = -1
    /\ manual = NoMatching
    /\ InitMore

NextCache ==
    \/ StartSnapper
    \/ CheckRequiredFields
    \/ LoadSegmented
    \/ WriteSegmented
    \/ SegmentedWritten
    \/ LoadAttributed
    \/ WriteAttributed
    \/ AttributedWritten
    \/ MergeAndSave
    \/ Crash
    \/ RunAggregator

SpecCache == InitCache /\ [][NextCache]_vars

-----------------------------------------------------------------------------
(* start_matching.py: the manual interventions on the matched ways of one  *)
(* TILDA file, several rows of which may belong to the same OSM way        *)

\* manual_interventions.py read_way_ids_from_file: the IDs of the lines of
\* the file; None stands for a file that does not exist
read_way_ids_from_file(lines) ==
    IF lines = None THEN {}
    ELSE {ParseNat(Strip(lines[i])) :
             i \in {j \in 1..Len(lines) :
                       /\ Strip(lines[j]) # ""
                       /\ ~StartsWith(Strip(lines[j]), "#")
                       /\ IsDigit(Strip(lines[j]))}}

IdCol(gdf) == IF "tilda_osm_id" \in Columns(gdf) THEN "tilda_osm_id" ELSE "tilda_id"

\* gdf[gdf[col].isin(ids)] and its complement
IsIn(gdf, col, ids) ==
    LET Hit(row) == Val(row[col]) \in ids
    IN SelectSeq(gdf, Hit)

NotIn(gdf, col, ids) ==
    LET Miss(row) == Val(row[col]) \notin ids
    IN SelectSeq(gdf, Miss)

Stamp(gdf, action) == [i \in 1..Len(gdf) |-> With(gdf[i], "manual_action", Some(action))]

\* the included ways are added without a look at the matched ways
apply_manual_interventions_all_included(args, matched_gdf, osm_gdf) ==
    LET id_col == IdCol(osm_gdf)
        excluded_ids == read_way_ids_from_file(args.exclude_ways)
        included_ids == read_way_ids_from_file(args.include_ways)
        kept == NotIn(matched_gdf, id_col, excluded_ids)
        ways_to_add == Stamp(IsIn(osm_gdf, id_col, included_ids), "added")
    IN IF args.skip_manual_interventions
       THEN [matched_gdf |-> matched_gdf, manual_interventions |-> None]
       ELSE [matched_gdf |-> GeoDataFrame(kept \o ways_to_add),
             manual_interventions |->
                 Some(GeoDataFrame(
                          ways_to_add
                          \o Stamp(IsIn(matched_gdf, id_col, excluded_ids), "removed")))]

\* start_matching.py apply_manual_interventions: the matched ways after the
\* step and the file of the manual interventions, None if it is not written
apply_manual_interventions(args, matched_gdf, osm_gdf) ==
    LET id_col == IdCol(osm_gdf)
        excluded_ids == read_way_ids_from_file(args.exclude_ways)
        removed_gdf == IF excluded_ids # {}
                       THEN Some(Stamp(IsIn(matched_gdf, id_col, excluded_ids), "removed"))
                       ELSE None
        kept == IF excluded_ids # {} THEN NotIn(matched_gdf, id_col, excluded_ids)
                ELSE matched_gdf
        included_ids == read_way_ids_from_file(args.include_ways)
        matched_ids == {Val(kept[i][id_col]) : i \in 1..Len(kept)}
        ways_to_add == IF included_ids # {}
                       THEN NotIn(IsIn(osm_gdf, id_col, included_ids), id_col, matched_ids)
                       ELSE <<>>
        added_gdf == IF ways_to_add # <<>> THEN Some(Stamp(ways_to_add, "added")) ELSE None
        result == IF added_gdf # None THEN GeoDataFrame(kept \o Val(added_gdf)) ELSE kept
        manual_gdf == (IF added_gdf # None THEN Val(added_gdf) ELSE <<>>)
                      \o (IF removed_gdf # None THEN Val(removed_gdf) ELSE <<>>)
    IN IF args.skip_manual_interventions
       THEN [matched_gdf |-> matched_gdf, manual_interventions |-> None]
       ELSE [matched_gdf |-> result,
             manual_interventions |->
                 IF added_gdf # None \/ removed_gdf # None
                 THEN Some(GeoDataFrame(manual_gdf)) ELSE None]

\* start_matching.py process_dataset(): the step of the manual interventions
ApplyManualInterventions ==
    /\ pc = "manual"
    /\ LET r == apply_manual_interventions(manual, manual.matched_gdf, manual.osm_gdf)
       IN manual' = [manual EXCEPT !.matched_gdf = r.matched_gdf,
                                   !.manual_interventions = r.manual_interventions]
    /\ pc' = "write"
    /\ UNCHANGED <<gdf_in, translated, retranslated, osm, net_segmented, seg_idx,
                   snapped_records, out_gdf, result_gdf, layers, net, combined_gdf,
                   pool, log_candidates, disk, exit_status>>
    /\ UNCHANGED more_vars

MaxWays == 3

\* the OSM ways of the rows of the TILDA file
WayNrs == {1, 2, 3}

\* a row of the TILDA file: the OSM way and the number of the row
TildaRow(osm_id, nr) ==
    ("tilda_osm_id" :> Some(osm_id)) @@ ("tilda_id" :> Some(nr))

\* the files exclude_ways.txt and include_ways.txt
IdFiles ==
    {None, <<"# keine">>, <<"1">>, <<"# Weserstraße", "", " 2 ", "3">>, <<"1", "x2", "2">>}

\* the rows of gdf at the places of mask
Masked(gdf, mask) ==
    LET RECURSIVE Pick(_)
        Pick(i) == IF i > Len(gdf) THEN <<>>
                   ELSE (IF i \in mask THEN <<gdf[i]>> ELSE <<>>) \o Pick(i + 1)
    IN Pick(1)

InitManual ==
    /\ pc = "manual"
    /\ \E ids \in SeqsUpTo(WayNrs, MaxWays), exclude_ways \in IdFiles,
          include_ways \in IdFiles, skip \in BOOLEAN :
          \E mask \in SUBSET (1..Len(ids)) :
              LET osm_gdf == [i \in 1..Len(ids) |-> TildaRow(ids[i], i)]
              IN manual = [osm_gdf |-> osm_gdf,
                           matched_gdf_step1 |-> Masked(osm_gdf, mask),
                           matched_gdf |-> Masked(osm_gdf, mask),
                           exclude_ways |-> exclude_ways,
                           include_ways |-> include_ways,
                           skip_manual_interventions |-> skip,
                           manual_interventions |-> None]
    /\ gdf_in = NoFiles
    /\ translated = NoFiles
    /\ retranslated = NoFiles
    /\ osm = <<>>
    /\ net = <<>>
    /\ net_segmented = <<>>
    /\ seg_idx = 0
    /\ snapped_records = <<>>
    /\ out_gdf = <<>>
    /\ result_gdf = <<>>
    /\ layers = <<>>
    /\ combined_gdf = <<>>
    /\ pool = IdlePool
    /\ log_candidates = FALSE
    /\ disk = NoCache
    /\ exit_status = -1
    /\ InitMore

NextManual == ApplyManualInterventions

SpecManual == InitManual /\ [][NextManual]_vars

-----------------------------------------------------------------------------
(* Candidate selection: the snapping loop on one segment next to up to     *)
(* MaxScored ways of every direction of traffic, priority and bearing      *)

MaxScored == 2

\* one-way and two-way ways with and without cycling infrastructure, and a
\* carriageway of a divided road
ScoredKinds ==
    <<[data_source |-> "bikelanes", row |-> BikelaneRow],
      [data_source |-> "bikelanes", row |-> With(BikelaneRow, "oneway", Some("no"))],
      [data_source |-> "streets", row |-> StreetRow],
      [data_source |-> "streets", row |-> With(StreetRow, "oneway", Some("no"))],
      [data_source |-> "streets", row |-> With(StreetRow, "oneway", Some("yes_dual_carriageway"))]>>

\* the bearings of a way next to a segment of bearing 0: along it, across
\* it and against it
ScoredBearings == {0, 90, 180}

\* the input files holding the ways: choice[i] = <<kind, bearing>> of way i
ScoredFiles(choice) ==
    [s \in Range(DataSources) |->
        LET RECURSIVE Pick(_)
            Pick(i) == IF i > Len(choice) THEN <<>>
                       ELSE (IF ScoredKinds[choice[i][1]].data_source = s
                             THEN <<With(With(ScoredKinds[choice[i][1]].row,
                                              "id", Some(WayIds[i])),
                                         "geometry", [id |-> i, angle |-> choice[i][2]])>>
                             ELSE <<>>)
                            \o Pick(i + 1)
        IN Pick(1)]

InitScoring ==
    /\ pc = "snap"
    /\ \E n \in 1..MaxScored :
          /\ \E choice \in [1..n -> (1..Len(ScoredKinds)) \X ScoredBearings] :
                /\ gdf_in = ScoredFiles(choice)
                /\ translated = [s \in Range(DataSources) |->
                                    translate_tilda_attributes(ScoredFiles(choice)[s], s)]
                /\ osm = Matched(ScoredFiles(choice))
          /\ \E rel \in [1..n -> {Near, NearEnd, Far}] :
                net_segmented = <<Segment(1, 0, 0, SegmentLength, rel),
                                  Segment(2, 0, 0, SegmentLength, [w \in 1..n |-> Near])>>
    /\ retranslated = NoFiles
    /\ seg_idx = 0
    /\ snapped_records = <<>>
    /\ out_gdf = <<>>
    /\ result_gdf = <<>>
    /\ layers = <<>>
    /\ net = net_segmented
    /\ InitRun

NextScoring == SnapSegment \/ MergeSegments

SpecScoring == InitScoring /\ [][NextScoring]_vars

-----------------------------------------------------------------------------
(* Two runs of the snapping loop on the same data: one segment next to     *)
(* MaxTied ways                                                            *)

MaxTied == 2

\* the orders in which the spatial index can return n rows:
\* sindex.intersection promises no order of the indices it returns
Orders(n) == {p \in [1..n -> 1..n] : \A i, j \in 1..n : p[i] = p[j] => i = j}

\* osm_gdf.iloc[cand_idx] for the indices in the order the index returns them
iloc(gdf, cand_idx) == [i \in 1..Len(cand_idx) |-> gdf[cand_idx[i]]]

\* one pass of the loop over the segments, the order of the candidates being
\* the one the spatial index returns
SnapPresented ==
    /\ pc = "snap"
    /\ seg_idx < Len(net_segmented)
    /\ \E cand_idx \in Orders(Len(osm)) :
          snapped_records' = snapped_records \o
              snap_segment(net_segmented[seg_idx + 1], iloc(osm, cand_idx),
                           CONFIG_BUFFER_DEFAULT)
    /\ seg_idx' = seg_idx + 1
    /\ UNCHANGED <<pc, gdf_in, translated, retranslated, osm, net_segmented, out_gdf,
                   result_gdf, layers, net, combined_gdf, pool, log_candidates, disk,
                   exit_status, manual, previous_records, matcher, edges_frame, elem>>

\* the program is started again on the same files
RunAgain ==
    /\ pc = "snap"
    /\ seg_idx = Len(net_segmented)
    /\ previous_records = <<>>
    /\ previous_records' = snapped_records
    /\ snapped_records' = <<>>
    /\ seg_idx' = 0
    /\ UNCHANGED <<pc, gdf_in, translated, retranslated, osm, net_segmented, out_gdf,
                   result_gdf, layers, net, combined_gdf, pool, log_candidates, disk,
                   exit_status, manual, matcher, edges_frame, elem>>

InitTie ==
    /\ pc = "snap"
    /\ \E choice \in [1..MaxTied -> (1..Len(ScoredKinds)) \X {0, 180}] :
          /\ gdf_in = ScoredFiles(choice)
          /\ translated = [s \in Range(DataSources) |->
                              translate_tilda_attributes(ScoredFiles(choice)[s], s)]
          /\ osm = Matched(ScoredFiles(choice))
    /\ \E rel \in [1..MaxTied -> {Near, NearEnd}] :
          net_segmented = <<Segment(1, 0, 0, SegmentLength, rel)>>
    /\ retranslated = NoFiles
    /\ seg_idx = 0
    /\ snapped_records = <<>>
    /\ out_gdf = <<>>
    /\ result_gdf = <<>>
    /\ layers = <<>>
    /\ net = net_segmented
    /\ InitRun

NextTie == SnapPresented \/ RunAgain

SpecTie == InitTie /\ [][NextTie]_vars

-----------------------------------------------------------------------------
(* The caches of the stages: runs of start_snapping.py and of              *)
(* start_matching.py, one after the other, on the same output directory    *)

BUFFER_BIKELANES_METERS == 25
BUFFER_STREETS_METERS == 15

\* fraction_threshold = 0.7, in percent
FRACTION_THRESHOLD == 70

\* the data sources of the run: paths are skipped (--skip-paths)
MatcherSources == <<"bikelanes", "streets">>

\* get_data_sources_config: the buffer radius of a data source
buffer_meters_of(source_name) ==
    IF source_name = "bikelanes" THEN BUFFER_BIKELANES_METERS ELSE BUFFER_STREETS_METERS

\* vorrangnetz_gdf.buffer(buffer_meters, cap_style).union_all(): the area
\* within buffer_meters of an edge of the network
buffer(vorrangnetz_gdf, buffer_meters, cap_style) ==
    [lines |-> [i \in 1..Len(vorrangnetz_gdf) |-> vorrangnetz_gdf[i]["geometry"]],
     buffer_meters |-> buffer_meters,
     cap_style |-> cap_style]

\* the percentage of the line inside the buffer: a way runs along an edge,
\* within the buffer or beyond it
line_in_buffer_fraction(line, buffer_geom) ==
    IF \E i \in 1..Len(buffer_geom.lines) :
           buffer_geom.lines[i].rel[line.id].d <= buffer_geom.buffer_meters
    THEN 100 ELSE 0

\* the buffer computed and written whether or not its file exists
create_unified_buffer_uncached(vorrangnetz_gdf, buffer_meters, cache_file) ==
    LET unified_buffer == buffer(vorrangnetz_gdf, buffer_meters, "flat")
    IN [unified_buffer |-> unified_buffer,
        cache_file |-> CompleteFile(<<"geometry" :> unified_buffer>>)]

\* buffer_utils.py: the unified buffer and the cache file after the call;
\* cache_file is the file vorrangnetz_buffered_{buffer_meters}m_flat.fgb
\* before the call, None if it does not exist
create_unified_buffer(vorrangnetz_gdf, buffer_meters, cache_file) ==
    IF cache_file # None
    THEN [unified_buffer |-> cache_file.rows[1]["geometry"], cache_file |-> cache_file]
    ELSE LET unified_buffer == buffer(vorrangnetz_gdf, buffer_meters, "flat")
         IN [unified_buffer |-> unified_buffer,
             cache_file |-> CompleteFile(<<"geometry" :> unified_buffer>>)]

\* start_matching.py: the ways in the buffer and the cache file after the
\* call; cache_file is the file osm_{output_prefix}_in_buffering.fgb before
\* the call, None if it does not exist
find_osm_ways_in_buffer(osm_gdf, unified_buffer, cache_file) ==
    IF cache_file # None
    THEN [matched_gdf |-> cache_file.rows, cache_file |-> cache_file]
    ELSE LET InBuffer(row) ==
                 line_in_buffer_fraction(row["geometry"], unified_buffer)
                     >= FRACTION_THRESHOLD
             matched_gdf == SelectSeq(osm_gdf, InBuffer)
         IN [matched_gdf |-> matched_gdf, cache_file |-> CompleteFile(matched_gdf)]

\* a way between the radius of the streets and that of the cycle tracks
Between == [d |-> 20, mid |-> 20, bbox |-> TRUE]

\* the translated files of the matcher: a cycle track and a street
MatcherFiles ==
    [s \in Range(DataSources) |->
        translate_tilda_attributes(FilesOf(<<<<1, 0>>, <<3, 0>>>>)[s], s)]

\* the priority networks of the runs: next to the cycle track, and next to
\* the street
MatcherNetworks ==
    {<<Segment(1, 0, 0, SegmentLength, <<Near, Between>>)>>,
     <<Segment(2, 0, 0, SegmentLength, <<Far, Near>>)>>}

\* main(): the priority network is loaded
StartMatcher ==
    /\ Ended
    /\ \E vorrangnetz_gdf \in MatcherNetworks :
          matcher' = [NoMatcher EXCEPT !.vorrangnetz_gdf = vorrangnetz_gdf,
                                       !.osm_files = MatcherFiles,
                                       !.source = 1]
    /\ exit_status' = -1
    /\ pc' = "buffer"
    /\ UNCHANGED <<gdf_in, translated, retranslated, osm, net_segmented, seg_idx,
                   snapped_records, out_gdf, result_gdf, layers, net, combined_gdf,
                   pool, log_candidates, disk, manual, previous_records,
                   edges_frame, elem>>

\* main(): the buffer for the data source
CreateUnifiedBuffer ==
    /\ pc = "buffer"
    /\ LET buffer_size == buffer_meters_of(MatcherSources[matcher.source])
           r == create_unified_buffer(matcher.vorrangnetz_gdf, buffer_size,
                                      disk.buffered[buffer_size])
       IN /\ matcher' = [matcher EXCEPT !.unified_buffer = Some(r.unified_buffer)]
          /\ disk' = [disk EXCEPT !.buffered[buffer_size] = r.cache_file]
    /\ pc' = "find"
    /\ UNCHANGED <<gdf_in, translated, retranslated, osm, net_segmented, seg_idx,
                   snapped_records, out_gdf, result_gdf, layers, net, combined_gdf,
                   pool, log_candidates, exit_status, manual, previous_records,
                   edges_frame, elem>>

\* process_data_source(): the ways of the data source in the buffer; main()
\* goes on to the next data source
FindOsmWaysInBuffer ==
    /\ pc = "find"
    /\ LET output_prefix == MatcherSources[matcher.source]
           r == find_osm_ways_in_buffer(matcher.osm_files[output_prefix],
                                        Val(matcher.unified_buffer),
                                        disk.in_buffering[output_prefix])
       IN /\ disk' = [disk EXCEPT !.in_buffering[output_prefix] = r.cache_file]
          /\ IF matcher.source < Len(MatcherSources)
             THEN /\ matcher' = [matcher EXCEPT !.matched_gdf = r.matched_gdf,
                                                !.source = @ + 1]
                  /\ pc' = "buffer"
                  /\ UNCHANGED exit_status
             ELSE /\ matcher' = [matcher EXCEPT !.matched_gdf = r.matched_gdf]
                  /\ pc' = "exited"
                  /\ exit_status' = 0
    /\ UNCHANGED <<gdf_in, translated, retranslated, osm, net_segmented, seg_idx,
                   snapped_records, out_gdf, result_gdf, layers, net, combined_gdf,
                   pool, log_candidates, manual, previous_records,
                   edges_frame, elem>>

NextStages ==
    \/ StartSnapper
    \/ CheckRequiredFields
    \/ LoadSegmented
    \/ WriteSegmented
    \/ SegmentedWritten
    \/ LoadAttributed
    \/ WriteAttributed
    \/ AttributedWritten
    \/ MergeAndSave
    \/ StartMatcher
    \/ CreateUnifiedBuffer
    \/ FindOsmWaysInBuffer

SpecStages == InitCache /\ [][NextStages]_vars

-----------------------------------------------------------------------------
(* Merging: the snapping loop on MaxMerged segments of one edge next to    *)
(* two ways, followed by the merge of the variants                         *)

MaxMerged == 2

InitReorder ==
    /\ pc = "snap"
    /\ \E choice \in [1..2 -> (1..Len(ScoredKinds)) \X {0}] :
          /\ gdf_in = ScoredFiles(choice)
          /\ translated = [s \in Range(DataSources) |->
                              translate_tilda_attributes(ScoredFiles(choice)[s], s)]
          /\ osm = Matched(ScoredFiles(choice))
    /\ \E rel \in [1..MaxMerged -> [1..2 -> {Near, NearEnd}]] :
          net_segmented = [i \in 1..MaxMerged |->
                              Segment(1, 0, (i - 1) * SegmentLength, SegmentLength, rel[i])]
    /\ retranslated = NoFiles
    /\ seg_idx = 0
    /\ snapped_records = <<>>
    /\ out_gdf = <<>>
    /\ result_gdf = <<>>
    /\ layers = <<>>
    /\ net = net_segmented
    /\ InitRun

NextReorder == SnapSegment \/ MergeSegments

SpecReorder == InitReorder /\ [][NextReorder]_vars

-----------------------------------------------------------------------------
(* Closed enumerations and the translator's round trip                     *)

\* the labels of the target schema, as the translator and the aggregator
\* spell them
ValueSets ==
    [fuehr |-> {"Mischverkehr mit motorisiertem Verkehr",
                "Sonstige Wege (Gehwege, Wege durch Grünflächen, Plätze)",
                "Radfahrstreifen",
                "Radfahrstreifen mit Linienverkehr frei (Z237 mit Z1026-32)",
                "Geschützter Radfahrstreifen", "Schutzstreifen",
                "Fahrradstraße /-zone (Z 244)", "Radweg",
                "Gemeinsamer Geh- und Radweg mit Z240",
                "Gehweg mit Zusatzzeichen \"Radverkehr frei\" (Z239 mit Z1022-10)",
                "Fußgängerzone \"Radverkehr frei\" (Z242 mit Z1022-10)",
                "Keine Radinfrastruktur vorhanden"},
     verkehrsri |-> {"Einrichtungsverkehr", "Zweirichtungsverkehr"},
     ofm |-> {MAPPING_OFM_SURFACE[k] : k \in DOMAIN MAPPING_OFM_SURFACE}
             \cup {"NICHT-GEFUNDEN"},
     protek |-> {MAPPING_PROTEK_SEPARATION[k] : k \in DOMAIN MAPPING_PROTEK_SEPARATION}
                \cup {"Ruhender Verkehr (mit Sperrfläche)", "nur Sperrfläche"},
     trennstreifen |-> Range(TRENNSTREIFEN_HIERARCHY),
     nutz_beschr |-> Range(NUTZ_BESCHR_HIERARCHY)]

InValueSet(attr, cell) ==
    \/ Val(cell) \in ValueSets[attr]
    \/ StartsWith(Val(cell), "[TODO] ")

\* every row the pipeline holds after the translator, in any of its stages
AllFiles == Concat([k \in 1..Len(DataSources) |-> translated[DataSources[k]]])
AllLayers == IF layers = <<>> THEN <<>>
             ELSE Concat([k \in 1..Cardinality(DOMAIN layers) |->
                            layers[CHOOSE l \in DOMAIN layers :
                                      Cardinality({m \in DOMAIN layers : StrLess(m, l)}) = k - 1]])

\* C6: Closed enumerations.  For every input row and data source the
\* translator's fuehr, verkehrsri, ofm, protek, trennstreifen and nutz_beschr
\* are members of their value sets or a "[TODO] ..." diagnostic, and so are
\* the values of these attributes in the variants, the merged segments, the
\* aggregated edges and the written layers, where they may also be null.
C6_ClosedEnumerations ==
    /\ \A i \in 1..Len(AllFiles) : \A attr \in DOMAIN ValueSets :
           /\ notna(AllFiles[i][attr])
           /\ InValueSet(attr, AllFiles[i][attr])
    /\ \A rows \in {osm, snapped_records, out_gdf, result_gdf, AllLayers} :
           \A i \in 1..Len(rows) : \A attr \in DOMAIN ValueSets :
               attr \in DOMAIN rows[i] /\ notna(rows[i][attr])
                   => InValueSet(attr, rows[i][attr])

\* a way with a surface the mapping does not know has reached a written
\* layer, next to a placeholder edge
C6_Witness ==
    /\ pc = "done"
    /\ \E i \in 1..Len(AllLayers) :
           /\ AllLayers[i]["ofm"] = Some("NICHT-GEFUNDEN")
           /\ AllLayers[i]["fuehr"] = Some("Radweg")
           /\ gdf_in["bikelanes"][1]["surface"] = Some("tartan")
    /\ \E i \in 1..Len(out_gdf) :
           out_gdf[i]["fuehr"] = Some("Keine Radinfrastruktur vorhanden")

\* C7: Translator idempotence.  The translator applied to its own output
\* leaves fuehr, verkehrsri, ofm, protek, pflicht, breite, farbe,
\* trennstreifen and nutz_beschr of every row unchanged.
C7_TranslatorIdempotent ==
    pc = "retranslated" =>
        \A s \in Range(DataSources) : \A i \in 1..Len(translated[s]) :
            \A attr \in rvn_attributes :
                retranslated[s][i][attr] = translated[s][i][attr]

-----------------------------------------------------------------------------
(* Direction coverage and the identifiers                                  *)

EdgesOf(rows, element_nr) ==
    {i \in 1..Len(rows) : rows[i]["element_nr"] = element_nr}

Aggregated == pc \in {"districts", "write", "done"}

\* C1: Direction coverage.  Every element_nr of the final output has exactly
\* one directed edge, or exactly two, one with ri = 0 and one with ri = 1;
\* no element_nr of the network has none or more than two.
C1_DirectionCoverage ==
    Aggregated =>
        /\ \A i \in 1..Len(result_gdf) : result_gdf[i]["ri"] \in {Some(0), Some(1)}
        /\ \A s \in 1..Len(net_segmented) :
              LET edges == EdgesOf(result_gdf, net_segmented[s]["element_nr"])
              IN /\ Cardinality(edges) \in {1, 2}
                 /\ Cardinality(edges) = 2 =>
                        {result_gdf[i]["ri"] : i \in edges} = {Some(0), Some(1)}
        /\ \A i \in 1..Len(result_gdf) :
              \E s \in 1..Len(net_segmented) :
                  net_segmented[s]["element_nr"] = result_gdf[i]["element_nr"]

\* one element_nr has a single edge (a one-way street in mixed traffic), the
\* other has two
C1_Witness ==
    /\ pc = "done"
    /\ \E i, j \in 1..Len(result_gdf) :
          /\ Cardinality(EdgesOf(result_gdf, result_gdf[i]["element_nr"])) = 1
          /\ Cardinality(EdgesOf(result_gdf, result_gdf[j]["element_nr"])) = 2
          /\ result_gdf[i]["fuehr"] = Some("Mischverkehr mit motorisiertem Verkehr")

-----------------------------------------------------------------------------
(* Variant creation                                                        *)

\* the segment under test, the ways within its buffer and its variants
TestSegment == net_segmented[1]
InBuffer(way) == TestSegment["geometry"].rel[way["geometry"].id].d <= CONFIG_BUFFER_DEFAULT
Candidates == SelectSeq(osm, InBuffer)
OfTestSegment(record) == record["element_nr"] = TestSegment["element_nr"]
Variants == SelectSeq(snapped_records, OfTestSegment)
Snapped == pc = "snap" /\ seg_idx >= 1

Aligned(way) ==
    angle_difference(TestSegment["geometry"].angle, way["geometry"].angle) < 90

\* the variant carries the attributes of the way
Carries(variant, way) ==
    /\ \A attr \in Range(FINAL_DATASET_SEGMENT_MERGE_ATTRIBUTES) \ {"ri", "Kommentar"} :
           variant[attr] = way[attr]
    /\ \A attr \in {"data_source", "tilda_id", "tilda_name", "tilda_oneway"} :
           variant[attr] = way[attr]

VariantsOfRi(ri) == {k \in 1..Len(Variants) : Variants[k]["ri"] = Some(ri)}

\* C3: Scenario S3.  When the only candidate of a segment is a one-way way
\* with the bearing of the segment, the ri = 0 variant carries its
\* attributes and the ri = 1 variant has fuehr = 'Keine Radinfrastruktur
\* vorhanden' instead of them.
C3_OrientationScenario ==
    /\ Snapped
    /\ Len(Candidates) = 1
    /\ Candidates[1]["verkehrsri"] = Some("Einrichtungsverkehr")
    /\ Candidates[1]["geometry"].angle = TestSegment["geometry"].angle
    => /\ \E k \in VariantsOfRi(0) : Carries(Variants[k], Candidates[1])
       /\ \E k \in VariantsOfRi(1) :
              Variants[k]["fuehr"] = Some("Keine Radinfrastruktur vorhanden")
       /\ \A k \in VariantsOfRi(1) : Variants[k]["tilda_id"] # Candidates[1]["tilda_id"]

\* C4: Scenario S4.  When every candidate of a segment is a one-way way of a
\* dual carriageway and the candidates include an aligned and an opposite
\* way, there is exactly one ri = 0 variant, carrying the attributes of an
\* aligned way, and exactly one ri = 1 variant, carrying those of an
\* opposite way.
C4_DualCarriageway ==
    /\ Snapped
    /\ \A c \in 1..Len(Candidates) :
           /\ Candidates[c]["tilda_oneway"] = Some("yes_dual_carriageway")
           /\ Candidates[c]["verkehrsri"] = Some("Einrichtungsverkehr")
    /\ \E c \in 1..Len(Candidates) : Aligned(Candidates[c])
    /\ \E c \in 1..Len(Candidates) : ~Aligned(Candidates[c])
    => /\ Len(Variants) = 2
       /\ \E k \in VariantsOfRi(0) : \E c \in 1..Len(Candidates) :
              Aligned(Candidates[c]) /\ Carries(Variants[k], Candidates[c])
       /\ \E k \in VariantsOfRi(1) : \E c \in 1..Len(Candidates) :
              ~Aligned(Candidates[c]) /\ Carries(Variants[k], Candidates[c])

\* the segment lies between the two carriageways, the opposite one first
C4_Witness ==
    /\ Snapped
    /\ Len(Candidates) = 2
    /\ \A c \in 1..2 : Candidates[c]["tilda_oneway"] = Some("yes_dual_carriageway")
    /\ ~Aligned(Candidates[1])
    /\ Aligned(Candidates[2])
    /\ Len(Variants) = 2

\* C5: Empty spatial query.  A segment with no way in the spatial index
\* query, or with all ways farther than the buffer, gets exactly two
\* variants, ri = 0 and ri = 1, each with fuehr = 'Keine Radinfrastruktur
\* vorhanden' and every other normalized attribute and every tilda_* and
\* data_source attribute null; the loop goes on to the next segment.
C5_EmptySpatialQuery ==
    Snapped /\ Len(Candidates) = 0
    => /\ Len(Variants) = 2
       /\ Variants[1]["ri"] = Some(0)
       /\ Variants[2]["ri"] = Some(1)
       /\ \A k \in 1..2 :
             /\ Variants[k]["fuehr"] = Some("Keine Radinfrastruktur vorhanden")
             /\ \A attr \in (Range(FINAL_DATASET_SEGMENT_MERGE_ATTRIBUTES) \ {"ri", "fuehr"})
                            \cup Range(FINAL_DATASET_SEGMENT_ADDITIONAL_ATTRIBUTES) :
                    ~notna(Variants[k][attr])
       /\ seg_idx = 1 => seg_idx < Len(net_segmented)
       /\ seg_idx = 2 => Len(snapped_records) > 2

\* every way is within the bounds of the buffer but farther than the buffer,
\* and the loop has gone on to the next segment
C5_Witness ==
    /\ Snapped
    /\ seg_idx = 2
    /\ \A w \in 1..Len(osm) : TestSegment["geometry"].rel[osm[w]["geometry"].id] = Far
    /\ Len(Variants) = 2

-----------------------------------------------------------------------------
(* Aggregation and district assignment                                     *)

\* the sections of a direction in the snapping output and the final edge
\* of the direction
Components(ri) == {i \in 1..Len(out_gdf) : out_gdf[i]["ri"] = Some(ri)}
FinalEdges(ri) == {e \in 1..Len(result_gdf) : result_gdf[e]["ri"] = Some(ri)}
AggregationDone == pc \in {"districts", "write", "done"} /\ Len(out_gdf) > 0
DistrictsDone == pc \in {"write", "done"} /\ Len(out_gdf) > 0

DistrictCodes == <<"01", "02", "12">>

\* C8: District consistency.  After assign_district_to_edges every final
\* edge that intersects at least one district has a non-null Bezirksnummer,
\* the two-digit code of a district with the greatest intersection length;
\* an intersection of length zero counts as an intersection.
C8_DistrictConsistency ==
    DistrictsDone =>
        \A e \in 1..Len(result_gdf) :
            LET inter == result_gdf[e]["geometry"].inter
                hit == {k \in DOMAIN inter : inter[k] # -1}
            IN hit # {} =>
                  /\ notna(result_gdf[e]["Bezirksnummer"])
                  /\ \E k \in hit :
                        /\ \A j \in hit : inter[j] <= inter[k]
                        /\ result_gdf[e]["Bezirksnummer"] = Some(DistrictCodes[k])

\* the non-null values of a column among the sections of a direction
ValuesOf(ri, attr) ==
    {Val(out_gdf[i][attr]) : i \in {j \in Components(ri) : notna(out_gdf[j][attr])}}

\* C9: Worst wins for trennstreifen.  For every (element_nr, ri) group of at
\* least two components the aggregated trennstreifen is the first value of
\* nein, ja, entfällt that occurs among the non-null values of the
\* components, whatever their lengths and their order.
C9_WorstWinsTrennstreifen ==
    AggregationDone =>
        \A ri \in {0, 1} :
            Cardinality(Components(ri)) >= 2 /\ ValuesOf(ri, "trennstreifen") # {} =>
                \A e \in FinalEdges(ri) :
                    result_gdf[e]["trennstreifen"] =
                        Some(IF "nein" \in ValuesOf(ri, "trennstreifen") THEN "nein"
                             ELSE IF "ja" \in ValuesOf(ri, "trennstreifen") THEN "ja"
                             ELSE "entfällt")

\* Scenario S5: ja on 40 m, nein on 30 m, entfällt on 80 m aggregate to nein
C9_Witness ==
    /\ pc = "districts"
    /\ Len(out_gdf) = 3
    /\ out_gdf[1]["trennstreifen"] = Some("ja") /\ out_gdf[1]["Länge"] = Some(40)
    /\ out_gdf[2]["trennstreifen"] = Some("nein") /\ out_gdf[2]["Länge"] = Some(30)
    /\ out_gdf[3]["trennstreifen"] = Some("entfällt") /\ out_gdf[3]["Länge"] = Some(80)
    /\ Components(0) = {1, 2, 3}
    /\ Len(result_gdf) = 1
    /\ result_gdf[1]["trennstreifen"] = Some("nein")

\* the total length of the components of a direction that hold the value
RECURSIVE SumOver(_, _)
SumOver(S, f) ==
    IF S = {} THEN 0
    ELSE LET i == CHOOSE x \in S : TRUE IN f[i] + SumOver(S \ {i}, f)

TotalLength(ri, attr, value) ==
    SumOver({i \in Components(ri) : out_gdf[i][attr] = Some(value)},
            [i \in 1..Len(out_gdf) |-> out_gdf[i]["geometry"].length])

\* C10: Longest wins.  For every (element_nr, ri) group and each of bezirk,
\* fuehr, pflicht, ofm, farbe, protek with a non-null value in the group,
\* the aggregated value is a non-null value of the group whose components'
\* lengths sum to the greatest total; null components count for no value.
C10_LongestWins ==
    AggregationDone =>
        \A ri \in {0, 1} : \A attr \in Range(LONGEST_SECTION_ATTRIBUTES) :
            ValuesOf(ri, attr) # {} =>
                \A e \in FinalEdges(ri) :
                    /\ notna(result_gdf[e][attr])
                    /\ Val(result_gdf[e][attr]) \in ValuesOf(ri, attr)
                    /\ \A v \in ValuesOf(ri, attr) :
                          TotalLength(ri, attr, v) <= TotalLength(ri, attr, Val(result_gdf[e][attr]))

\* Asphalt on 40 m and 80 m beats paving on the single longest component of
\* 100 m
C10_Witness ==
    /\ pc = "districts"
    /\ Len(out_gdf) = 3
    /\ Components(0) = {1, 2, 3}
    /\ out_gdf[1]["ofm"] = Some(MAPPING_OFM_SURFACE["paving_stones"])
    /\ out_gdf[1]["Länge"] = Some(100)
    /\ out_gdf[2]["ofm"] = Some("Asphalt") /\ out_gdf[2]["Länge"] = Some(40)
    /\ out_gdf[3]["ofm"] = Some("Asphalt") /\ out_gdf[3]["Länge"] = Some(80)
    /\ result_gdf[1]["ofm"] = Some("Asphalt")

-----------------------------------------------------------------------------
(* Lengths under merge                                                     *)

\* the variants merge_segments puts into the group of the merged row
MergeKey(row) ==
    <<row["element_nr"]>>
    \o normalize_merge_attributes_batch(row, FINAL_DATASET_SEGMENT_MERGE_ATTRIBUTES)

ComponentsOf(merged_row) ==
    {i \in 1..Len(snapped_records) :
        MergeKey(GeoDataFrame(snapped_records)[i]) = MergeKey(merged_row)}

\* two lines of the same element that share more than a point
Overlap(p, q) ==
    (IF p[1] > q[1] THEN p[1] ELSE q[1]) < (IF p[2] < q[2] THEN p[2] ELSE q[2])

ComponentLength == [i \in 1..Len(snapped_records) |-> snapped_records[i]["geometry"].length]

\* C11: Length monotonicity under merge.  For every group of merge_segments
\* the lengths of the components add up to the length of the merged
\* geometry within 1 cm and no two components of the group cover the same
\* stretch, also when several edges of the network have the same element_nr.
C11_LengthMonotonicity ==
    pc = "aggregate" =>
        \A g \in 1..Len(out_gdf) :
            /\ SumOver(ComponentsOf(out_gdf[g]), ComponentLength)
                   - out_gdf[g]["geometry"].length \in {-1, 0, 1}
            /\ \A i, j \in ComponentsOf(out_gdf[g]) :
                  i # j => ~Overlap(snapped_records[i]["geometry"].pieces[1],
                                    snapped_records[j]["geometry"].pieces[1])


-----------------------------------------------------------------------------
(* The test case of the protected bike lane                                *)

\* the combined network of the stitcher holds the edge of the test case
\* with a length of at least 30 m, next to the protected bike lane
CaseInInput ==
    /\ \E e \in 1..Len(combined_gdf) :
          /\ combined_gdf[e]["element_nr"] = Some(ProtectedLaneCase.element_nr)
          /\ combined_gdf[e]["geometry"].length >= 3000
    /\ gdf_in = OneFile("bikelanes", <<ProtectedLane>>)

\* C12: Scenario S2. After the stitcher and then the snapping stage have
\* run on a network that holds the edge 48500463_49500011.01 next to a
\* protected bike lane behind bollards, the snapping output has at least
\* one segment of that element_nr with fuehr 'Geschützter Radfahrstreifen',
\* protek 'Poller (auf Sperrfläche)' and a length of at least 30 m: the
\* test in the mode any_segment succeeds.
C12_ScenarioS2 ==
    (pc = "aggregate" /\ CaseInInput) => test_snapping_data(out_gdf, ProtectedLaneCase)


-----------------------------------------------------------------------------
(* The order of the results of the worker pool                             *)

\* what the sequential loop computes for the first n batches
SequentialRecords(n) ==
    Concat([b \in 1..n |->
               process_segments_batch(Batches[b][1], osm, CONFIG_BUFFER_DEFAULT)])

\* C13: Submission-order determinism. On the parallel path the results of
\* the batches are collected in the order the batches were submitted, in
\* whatever order the workers finish: after every collected batch, and when
\* the loop is over, the sequence of variants equals the sequence the
\* sequential path computes for the same inputs.
C13_SubmissionOrder ==
    /\ pc = "parallel" => snapped_records = SequentialRecords(pool.yielded)
    /\ (pc = "snap" /\ seg_idx = Len(net_segmented)) =>
           snapped_records = SequentialRecords(Len(Batches))

\* the parallel path is over; a worker delivered the second batch before
\* the first, and the results of the two batches differ
C13_Witness ==
    /\ pc = "snap"
    /\ seg_idx = Len(net_segmented)
    /\ Len(pool.outqueue) >= 2
    /\ pool.outqueue[1][1] = 2
    /\ pool.outqueue[2][1] = 1
    /\ pool.outqueue[1][2] # pool.outqueue[2][2]


-----------------------------------------------------------------------------
(* The files of the snapping stage over several runs                       *)

CacheFiles == {"seg", "seg_attr"}

\* the run is in the middle of the write of the file
Writing(f) == pc = (IF f = "seg" THEN "writing_seg" ELSE "writing_attr")

\* C14: No partially written cache. Whenever no run is in the middle of
\* writing it, also after a run was killed during the write, a file at the
\* place of the segmented network or of the attributed segments is absent
\* or holds the complete result of its stage, so that a later run that
\* finds the file does not go on from a truncated intermediate.
C14_NoPartialCache ==
    \A f \in CacheFiles : (disk[f] # None /\ ~Writing(f)) => disk[f].complete

AllComplete == \A f \in CacheFiles : disk[f] # None => disk[f].complete

\* C15: Cache keyed by logical content. With complete files only: after the
\* segmentation stage has loaded or computed its result, the segmented
\* network is the one the stage computes from the network of the current
\* run, and after the snapping stage the attributed segments are the ones
\* it computes from the current segments, ways and buffer; a run does not
\* read the intermediate of a run on another network.
C15_CacheKeyedByContent ==
    AllComplete =>
        /\ pc = "snapstage" =>
               net_segmented = split_network_into_segments(net, SegmentLength)
        /\ pc = "merge" =>
               snapped_records = process_segments_batch(net_segmented, osm,
                                                        CONFIG_BUFFER_DEFAULT)

\* the network of the run lacks one of the three fields
LacksField ==
    \/ "element_nr" \notin Columns(net)
    \/ "beginnt_bei_vp" \notin Columns(net)
    \/ "endet_bei_vp" \notin Columns(net)

StageWork == pc \in {"segment", "writing_seg", "snapstage", "writing_attr", "merge"}

\* C16: Missing required field is fatal. A snapping run whose network lacks
\* element_nr, beginnt_bei_vp or endet_bei_vp never reaches a stage; unless
\* it is killed it exits with status 1 having segmented, snapped, merged,
\* written and deleted nothing. An aggregator run whose input lacks
\* element_nr exits with status 1 and leaves the aggregated edges and the
\* layers as they were. A run that completes and writes its output exits
\* with status 0.
C16_MissingFieldFatal ==
    /\ [](StageWork => ~LacksField)
    /\ [][(pc = "check" /\ LacksField /\ exit_status' # 137) =>
             /\ pc' = "exited"
             /\ exit_status' = 1
             /\ UNCHANGED <<disk, net_segmented, snapped_records, out_gdf, result_gdf,
                            layers>>]_vars
    /\ [][(Ended /\ pc' = "exited" /\ "element_nr" \notin Columns(out_gdf')) =>
             /\ exit_status' = 1
             /\ UNCHANGED <<disk, result_gdf, layers>>]_vars
    /\ [][(Ended /\ pc' = "exited" /\ "element_nr" \in Columns(out_gdf')) =>
             exit_status' = 0]_vars
    /\ [][(pc = "merge" /\ disk'.out # disk.out) => exit_status' = 0]_vars

\* a run on a network without endet_bei_vp has exited with status 1 next to
\* the files of an earlier run, having segmented nothing
C16_Witness ==
    /\ pc = "exited"
    /\ exit_status = 1
    /\ LacksField
    /\ "element_nr" \in Columns(net)
    /\ net_segmented = <<>>
    /\ disk.seg # None
    /\ disk.out # None


-----------------------------------------------------------------------------
(* Manual interventions                                                    *)

IdsOf(gdf) == {Val(gdf[i]["tilda_osm_id"]) : i \in 1..Len(gdf)}
ExcludeIds == read_way_ids_from_file(manual.exclude_ways)
IncludeIds == read_way_ids_from_file(manual.include_ways)
Intervened == pc = "write" /\ ~manual.skip_manual_interventions

\* the ways matched before the step that the exclusion leaves
KeptIds == IdsOf(manual.matched_gdf_step1) \ ExcludeIds

\* the rows of the file of the manual interventions
AuditRows ==
    IF manual.manual_interventions = None THEN <<>> ELSE Val(manual.manual_interventions)

\* the ID set, the stamp of the added rows and the dropped rows after the step
InterventionsApplied ==
    /\ IdsOf(manual.matched_gdf) = KeptIds \cup (IncludeIds \cap IdsOf(manual.osm_gdf))
    /\ \A i \in 1..Len(manual.matched_gdf) :
          Get(manual.matched_gdf[i], "manual_action", NaN) = Some("added")
              <=> Val(manual.matched_gdf[i]["tilda_osm_id"]) \notin KeptIds
    /\ \A i \in 1..Len(manual.matched_gdf) :
          Get(manual.matched_gdf[i], "manual_action", NaN) # Some("removed")
    /\ \A i \in 1..Len(manual.matched_gdf_step1) :
          Val(manual.matched_gdf_step1[i]["tilda_osm_id"]) \in ExcludeIds =>
              \E j \in 1..Len(AuditRows) :
                  AuditRows[j] = With(manual.matched_gdf_step1[i], "manual_action",
                                      Some("removed"))

Occurrences(gdf, id) == Cardinality({i \in 1..Len(gdf) : Val(gdf[i]["tilda_osm_id"]) = id})

\* C17: Manual overrides, as stated. After apply_manual_interventions the
\* IDs of the matched ways are the IDs matched before minus exclude_ids,
\* united with the include_ids that exist in the source data; every ID
\* occurs at most once; exactly the added rows carry manual_action 'added';
\* the dropped rows are in the file of the manual interventions only, with
\* manual_action 'removed'.
C17_ManualOverrides ==
    Intervened =>
        /\ InterventionsApplied
        /\ \A id \in IdsOf(manual.matched_gdf) : Occurrences(manual.matched_gdf, id) <= 1

\* C17, amended: as above, but an ID occurs at most once among the matched
\* ways only if it belongs to at most one row of the source data; the rows
\* of an OSM way with several rows are all matched, dropped or added.
C17_ManualOverridesAmended ==
    Intervened =>
        /\ InterventionsApplied
        /\ \A id \in IdsOf(manual.matched_gdf) :
              Occurrences(manual.osm_gdf, id) <= 1 =>
                  Occurrences(manual.matched_gdf, id) <= 1

\* the step has dropped a matched way, added a way that was not matched
\* and found a way of the include list among the matched ones
C17_Witness ==
    /\ Intervened
    /\ ExcludeIds \cap IdsOf(manual.matched_gdf_step1) # {}
    /\ IncludeIds \cap KeptIds # {}
    /\ (IncludeIds \cap IdsOf(manual.osm_gdf)) \ KeptIds # {}
    /\ Len(manual.matched_gdf) >= 2

-----------------------------------------------------------------------------
(* Candidate selection                                                     *)

\* the orientation of a way relative to the segment under test
Orientation(way) == IF Aligned(way) THEN 0 ELSE 1

OneWay(way) == way["verkehrsri"] = Some("Einrichtungsverkehr")
TwoWay(way) == way["verkehrsri"] = Some("Zweirichtungsverkehr")

DirectionCompatibility(way, ri) ==
    CASE OneWay(way) /\ Orientation(way) = ri -> 10
      [] OneWay(way) /\ Orientation(way) # ri -> 0
      [] TwoWay(way) -> 1

MidDistance(way) == TestSegment["geometry"].rel[way["geometry"].id].mid

\* a comes before b in the order (direction_compatibility descending,
\* priority descending, distance to the midpoint ascending)
Outranks(a, b, ri) ==
    LET ka == <<DirectionCompatibility(a, ri), calculate_osm_priority(a), MidDistance(a)>>
        kb == <<DirectionCompatibility(b, ri), calculate_osm_priority(b), MidDistance(b)>>
    IN \/ ka[1] > kb[1]
       \/ ka[1] = kb[1] /\ ka[2] > kb[2]
       \/ ka[1] = kb[1] /\ ka[2] = kb[2] /\ ka[3] < kb[3]

\* the candidates whose attributes the variant of direction ri carries
Chosen(ri) ==
    {c \in 1..Len(Candidates) :
        \E k \in VariantsOfRi(ri) : Carries(Variants[k], Candidates[c])}

\* every candidate is a one-way way in mixed traffic and none is a
\* carriageway of a divided road
OneWayMixedOnly ==
    /\ Len(Candidates) > 0
    /\ \A c \in 1..Len(Candidates) :
           /\ OneWay(Candidates[c])
           /\ Candidates[c]["fuehr"] = Some("Mischverkehr mit motorisiertem Verkehr")
           /\ Candidates[c]["tilda_oneway"] # Some("yes_dual_carriageway")

\* C18: Best-candidate scoring.  For a segment with candidates and a
\* direction ri, the variant of ri carries the attributes of a candidate
\* that no candidate outranks in the order (direction_compatibility
\* descending, priority descending, distance to the midpoint ascending),
\* direction_compatibility being 10 for a one-way candidate oriented as ri, 0
\* for a one-way candidate oriented against ri and 1 for a two-way candidate;
\* so a one-way candidate oriented as ri wins over every two-way candidate
\* whatever the priorities, and a two-way candidate over every one-way
\* candidate oriented against ri.
C18_BestCandidateScoring ==
    Snapped /\ Len(Candidates) > 0 /\ ~OneWayMixedOnly =>
        \A ri \in {0, 1} :
            /\ Cardinality(VariantsOfRi(ri)) = 1
            /\ Chosen(ri) # {}
            /\ \A c \in Chosen(ri) : \A b \in 1..Len(Candidates) :
                   ~Outranks(Candidates[b], Candidates[c], ri)
            /\ (\E b \in 1..Len(Candidates) :
                    OneWay(Candidates[b]) /\ Orientation(Candidates[b]) = ri)
               => \A c \in Chosen(ri) :
                      OneWay(Candidates[c]) /\ Orientation(Candidates[c]) = ri
            /\ (\E b \in 1..Len(Candidates) : TwoWay(Candidates[b]))
               => \A c \in Chosen(ri) :
                      ~(OneWay(Candidates[c]) /\ Orientation(Candidates[c]) # ri)

\* a two-way cycle track of high priority next to the segment and a one-way
\* street of no priority along it, farther from the midpoint: direction 0
\* takes the street, direction 1 the cycle track
C18_Witness ==
    /\ Snapped
    /\ Len(Candidates) = 2
    /\ TwoWay(Candidates[1])
    /\ OneWay(Candidates[2]) /\ Orientation(Candidates[2]) = 0
    /\ calculate_osm_priority(Candidates[1]) > calculate_osm_priority(Candidates[2])
    /\ MidDistance(Candidates[1]) < MidDistance(Candidates[2])
    /\ Chosen(0) = {2}
    /\ Chosen(1) = {1}

\* the distance-filtered candidates within the maximum angle
Oriented ==
    {c \in 1..Len(Candidates) :
        angle_difference(Candidates[c]["geometry"].angle, TestSegment["geometry"].angle)
            <= CONFIG_MAX_ANGLE_DIFFERENCE}

\* C19: Oriented candidate set.  The candidates a variant takes its
\* attributes from are the distance-filtered candidates whose angle
\* difference to the segment is at most the maximum angle; a candidate with
\* a larger angle difference is chosen only when no distance-filtered
\* candidate is within that angle.
C19_OrientedCandidateSet ==
    Snapped /\ Len(Candidates) > 0 =>
        \A k \in 1..Len(Variants) : \A c \in 1..Len(Candidates) :
            Carries(Variants[k], Candidates[c]) /\ c \notin Oriented => Oriented = {}

\* C20: One-way mixed-traffic special case.  When every candidate of a
\* segment is a one-way way in mixed traffic and none is a carriageway of a
\* divided road, the segment gets exactly one variant; its ri is the
\* orientation of the chosen candidate relative to the segment and its
\* attributes are those of that candidate.  In every other case with a
\* candidate the segment gets exactly two variants, ri = 0 and ri = 1.
C20_OneWayMixedTraffic ==
    Snapped /\ Len(Candidates) > 0 =>
        IF OneWayMixedOnly
        THEN /\ Len(Variants) = 1
             /\ \E c \in 1..Len(Candidates) :
                    /\ Carries(Variants[1], Candidates[c])
                    /\ Variants[1]["ri"] = Some(Orientation(Candidates[c]))
        ELSE /\ Len(Variants) = 2
             /\ Variants[1]["ri"] = Some(0)
             /\ Variants[2]["ri"] = Some(1)

\* two one-way streets in mixed traffic, the one against the segment nearer
\* to its midpoint: the only variant has ri = 1 and the attributes of that
\* street
C20_Witness ==
    /\ Snapped
    /\ Len(Candidates) = 2
    /\ OneWayMixedOnly
    /\ Orientation(Candidates[1]) = 0
    /\ Orientation(Candidates[2]) = 1
    /\ MidDistance(Candidates[2]) < MidDistance(Candidates[1])
    /\ Len(Variants) = 1
    /\ Variants[1]["ri"] = Some(1)
    /\ Carries(Variants[1], Candidates[2])

\* C21: Deterministic tie-break.  The candidate chosen for a direction does
\* not depend on the order in which the candidates are presented, also when
\* candidates have equal direction_compatibility, priority and distance to
\* the midpoint: two runs on the same data produce the same variants.
C21_DeterministicTieBreak ==
    pc = "snap" /\ previous_records # <<>> /\ seg_idx = Len(net_segmented)
    => snapped_records = previous_records

-----------------------------------------------------------------------------
(* The caches of the stages                                                *)

\* the data source the matcher works on, its radius and its two cache files
Source == MatcherSources[matcher.source]
BufferFile == disk.buffered[buffer_meters_of(Source)]
InBufferingFile == disk.in_buffering[Source]

\* the ways of the data source of which at least the threshold lies in
\* the buffer
WaysIn(unified_buffer) ==
    LET Inside(row) ==
            line_in_buffer_fraction(row["geometry"], unified_buffer) >= FRACTION_THRESHOLD
    IN SelectSeq(matcher.osm_files[Source], Inside)

\* the ways in the buffer the matcher holds
WaysInBuffer == WaysIn(Val(matcher.unified_buffer))

\* C22: Cache short-circuit.  For the segmentation stage, the snapping
\* stage, the construction of the unified buffer and the search for the ways
\* in the buffer: if the cache file of the stage exists when the stage
\* starts, the stage computes nothing, leaves the file as it is and its
\* result is the content of the file; if the file does not exist, the stage
\* computes its result and then writes it to the file, so that the stage of
\* a later run finds the file.
C22_CacheShortCircuit ==
    /\ [][pc = "segment" =>
             IF disk.seg # None
             THEN /\ net_segmented' = disk.seg.rows
                  /\ pc' = "snapstage"
                  /\ disk' = disk
             ELSE /\ net_segmented' = split_network_into_segments(net, SegmentLength)
                  /\ pc' = "writing_seg"]_vars
    /\ [][pc = "writing_seg" =>
             /\ disk'.seg = CompleteFile(net_segmented)
             /\ UNCHANGED net_segmented
             /\ pc' = "snapstage"]_vars
    /\ [][pc = "snapstage" =>
             IF disk.seg_attr # None
             THEN /\ snapped_records' = disk.seg_attr.rows
                  /\ pc' = "merge"
                  /\ disk' = disk
             ELSE /\ snapped_records' =
                         process_segments_batch(net_segmented, osm, CONFIG_BUFFER_DEFAULT)
                  /\ pc' = "writing_attr"]_vars
    /\ [][pc = "writing_attr" =>
             /\ disk'.seg_attr = CompleteFile(snapped_records)
             /\ UNCHANGED snapped_records
             /\ pc' = "merge"]_vars
    /\ [][pc = "buffer" =>
             IF BufferFile # None
             THEN /\ matcher'.unified_buffer = Some(BufferFile.rows[1]["geometry"])
                  /\ disk' = disk
             ELSE /\ matcher'.unified_buffer =
                         Some(buffer(matcher.vorrangnetz_gdf, buffer_meters_of(Source),
                                     "flat"))
                  /\ disk'.buffered[buffer_meters_of(Source)] =
                         CompleteFile(<<"geometry" :> Val(matcher'.unified_buffer)>>)]_vars
    /\ [][pc = "find" =>
             IF InBufferingFile # None
             THEN /\ matcher'.matched_gdf = InBufferingFile.rows
                  /\ disk' = disk
             ELSE /\ matcher'.matched_gdf = WaysInBuffer
                  /\ disk'.in_buffering[Source] = CompleteFile(WaysInBuffer)]_vars

\* a matcher run has ended whose last stage took its result from the file
\* of a run on another network, after a snapping run that took the
\* segments from the file of a run on another network
C22_Witness ==
    /\ pc = "exited"
    /\ exit_status = 0
    /\ matcher.source = Len(MatcherSources)
    /\ InBufferingFile # None
    /\ matcher.matched_gdf = InBufferingFile.rows
    /\ Val(matcher.unified_buffer) #
           buffer(matcher.vorrangnetz_gdf, buffer_meters_of(Source), "flat")
    /\ matcher.matched_gdf #
           WaysIn(buffer(matcher.vorrangnetz_gdf, buffer_meters_of(Source), "flat"))
    /\ net_segmented # <<>>
    /\ net_segmented # split_network_into_segments(net, SegmentLength)

-----------------------------------------------------------------------------
(* The batches of the snapping loop                                        *)

\* the variants of the segments first..last, each segment once, in the
\* order of the segment list
VariantsOfSegments(first, last) ==
    Concat([i \in 1..(last - first + 1) |->
               snap_segment(net_segmented[first + i - 1], osm, CONFIG_BUFFER_DEFAULT)])

\* the batches are slices of the segment list of at most CONFIG_BATCH_SIZE
\* segments that follow each other without a gap and without an overlap
\* from the first segment to the last
BatchesPartition ==
    /\ \A b \in 1..Len(Batches) :
           /\ Len(Batches[b][1]) \in 1..CONFIG_BATCH_SIZE
           /\ Batches[b][1] = SubSeq(net_segmented, Batches[b][4] + 1,
                                     Batches[b][4] + Len(Batches[b][1]))
           /\ Batches[b][4] = IF b = 1 THEN 0
                              ELSE Batches[b - 1][4] + Len(Batches[b - 1][1])
    /\ Len(Batches) > 0 =>
           Batches[Len(Batches)][4] + Len(Batches[Len(Batches)][1]) = Len(net_segmented)
    /\ Concat([b \in 1..Len(Batches) |-> Batches[b][1]]) = net_segmented

\* no batch is with two workers or handed out again after its delivery
HandedOnce ==
    LET delivered == {pool.outqueue[k][1] : k \in 1..Len(pool.outqueue)}
    IN /\ Cardinality(delivered) = Len(pool.outqueue)
       /\ delivered \cap pool.running = {}
       /\ delivered \cup pool.running = 1..pool.handed

\* C23: Disjoint batch partition.  The batches handed to the workers, and
\* those of the sequential loop, are slices of the segment list of at most
\* CONFIG_BATCH_SIZE segments that follow each other; every segment is in
\* exactly one batch and the batches in the order of submission make up
\* the segment list.  Every batch is handed out once, and at the end of the
\* loop the variants are those of every segment, once each.
C23_DisjointBatchPartition ==
    /\ [](pc \in {"dispatch", "parallel"} => BatchesPartition)
    /\ [](pc = "parallel" => HandedOnce)
    /\ [][pc = "sequential" =>
             /\ seg_idx' - seg_idx \in 1..CONFIG_BATCH_SIZE
             /\ snapped_records' =
                    snapped_records \o VariantsOfSegments(seg_idx + 1, seg_idx')
             /\ pc' = "snap" <=> seg_idx' = Len(net_segmented)]_vars
    /\ []((pc = "snap" /\ seg_idx = Len(net_segmented)) =>
             snapped_records = VariantsOfSegments(1, Len(net_segmented)))

\* the pool has worked off three batches, the last of them a short one
C23_Witness ==
    /\ pc = "snap"
    /\ seg_idx = Len(net_segmented)
    /\ Len(Batches) = 3
    /\ Len(Batches[3][1]) < CONFIG_BATCH_SIZE
    /\ pool.yielded = 3
    /\ Len(snapped_records) > Len(net_segmented)

-----------------------------------------------------------------------------
(* The merge of the segments                                               *)

\* a row with its geometry as the set of its lines and its length, which do
\* not depend on the order in which the lines were joined
Shape(row) ==
    With(row, "geometry", [length |-> row["geometry"].length,
                           lines |-> Range(row["geometry"].pieces)])

\* the merged rows of the segment rows given in the order order, as a set
MergedRows(order) ==
    LET merged == merge_segments(GeoDataFrame(iloc(snapped_records, order)),
                                 "element_nr", FINAL_DATASET_SEGMENT_MERGE_ATTRIBUTES)
    IN {Shape(merged[i]) : i \in 1..Len(merged)}

\* C24: Merge order-independence.  For every permutation of the segment
\* rows merge_segments yields the same set of merged rows: the same groups
\* with the same geometry, Länge and attribute values, those outside the
\* grouping key included.
C24_MergeOrderIndependence ==
    pc = "aggregate" =>
        \A order \in Orders(Len(snapped_records)) :
            MergedRows(order) = MergedRows([i \in 1..Len(snapped_records) |-> i])


-----------------------------------------------------------------------------
(* The stage functions and the frames they are called with                 *)

\* C25: Mutation discipline.  A stage function leaves the collection passed
\* to it unchanged: after assign_district_to_edges the frame it was called
\* with, the aggregated edges, has the same rows, columns and values as
\* before the call.
C25_MutationDiscipline ==
    pc \in {"write", "done"} => edges_frame = aggregate_network(out_gdf)


-----------------------------------------------------------------------------
(* scripts/assign_element_nr_to_rvn.py                                     *)

\* explore_direction(): the default of max_depth
max_depth == 50

\* find_node_at_point(): the default of tolerance, 1.0 m in decimetres
tolerance == 10

\* the distance of two points, in decimetres
distance(a, b) == IF a >= b THEN a - b ELSE b - a

InSeq(x, seq) == \E i \in 1..Len(seq) : seq[i] = x

\* str(n) of a natural number
RECURSIVE StrNat(_)
StrNat(n) ==
    IF n < 10 THEN CharAt(Digits, n + 1)
    ELSE StrNat(n \div 10) \o CharAt(Digits, (n % 10) + 1)

\* f"{n:03d}"
Format03d(n) ==
    LET digits == StrNat(n)
    IN IF Len(digits) >= 3 THEN digits
       ELSE IF Len(digits) = 2 THEN "0" \o digits ELSE "00" \o digits

\* the ID of the closest node within the tolerance of the point, as a string
find_node_at_point(point, nodes_gdf) ==
    LET intersecting_nodes ==
            {i \in 1..Len(nodes_gdf) :
                distance(nodes_gdf[i]["geometry"], point) <= tolerance}
        distances == [i \in intersecting_nodes |->
                         distance(nodes_gdf[i]["geometry"], point)]
    IN IF intersecting_nodes # {}
       THEN LET closest_idx ==
                    CHOOSE i \in intersecting_nodes :
                        \A j \in intersecting_nodes :
                            \/ distances[i] < distances[j]
                            \/ distances[i] = distances[j] /\ i <= j
            IN Some(Str(nodes_gdf[closest_idx]["Knotenpunkt-ID"]))
       ELSE None

\* the first and the last coordinate of a line
get_line_endpoints(line_geom) ==
    [start_point |-> line_geom[1], end_point |-> line_geom[Len(line_geom)]]

\* the graph of the network, a simple graph as nx.Graph is: the coordinates
\* of the line ends, the neighbours of each in the order in which add_edge()
\* has met them first, and for each pair of coordinates the index of the
\* last segment between them, whose data replaces that of the earlier ones
create_network_graph(rvn_gdf) ==
    LET Segments == 0..(Len(rvn_gdf) - 1)
        ends == [idx \in Segments |->
                    get_line_endpoints(rvn_gdf[idx + 1]["geometry"])]
        coords == UNION {{ends[idx].start_point, ends[idx].end_point} :
                            idx \in Segments}
        between(u, v) ==
            {idx \in Segments : {ends[idx].start_point, ends[idx].end_point} = {u, v}}
        first(u, v) == CHOOSE idx \in between(u, v) : \A j \in between(u, v) : idx <= j
        last(u, v) == CHOOSE idx \in between(u, v) : \A j \in between(u, v) : idx >= j
        neighbors(c) == {v \in coords : between(c, v) # {}}
        in_order(c) ==
            CHOOSE seq \in [1..Cardinality(neighbors(c)) -> neighbors(c)] :
                \A i, j \in DOMAIN seq : i < j => first(c, seq[i]) < first(c, seq[j])
    IN [adj |-> [c \in coords |-> in_order(c)],
        segment_id |-> [e \in {{c, v} : c \in coords, v \in coords} |->
                           LET u == CHOOSE x \in e : TRUE
                               w == CHOOSE x \in e : e = {u, x}
                           IN IF between(u, w) # {} THEN last(u, w) ELSE -1]]

\* explore_direction() at the head of its while loop
StartExplore(start_coord) ==
    [queue |-> <<<<start_coord, 0>>>>, visited_coords |-> {}, found_segments |-> <<>>,
     expanded |-> <<>>, returned |-> FALSE, node_id |-> None]

\* the for loop over the neighbours of current_coord, from the k-th on
RECURSIVE for_neighbors(_, _, _, _, _)
for_neighbors(call, current_coord, depth, k, st) ==
    LET neighbors == call.G.adj[current_coord]
    IN IF k > Len(neighbors) THEN st
       ELSE LET neighbor_coord == neighbors[k]
                neighbor_idx == call.G.segment_id[{current_coord, neighbor_coord}]
                node_id == find_node_at_point(neighbor_coord, call.nodes_gdf)
            IN IF \/ neighbor_idx = call.exclude_idx
                  \/ neighbor_idx \in call.processed_segments
               THEN for_neighbors(call, current_coord, depth, k + 1, st)
               ELSE IF Truthy(node_id)
               THEN [st EXCEPT !.returned = TRUE, !.node_id = node_id]
               ELSE IF ~InSeq(neighbor_idx, st.found_segments)
               THEN for_neighbors(call, current_coord, depth, k + 1,
                        [st EXCEPT !.found_segments = Append(@, neighbor_idx),
                                   !.queue = Append(@, <<neighbor_coord, depth + 1>>)])
               ELSE for_neighbors(call, current_coord, depth, k + 1, st)

\* one pass of the while loop that expands a coordinate it has expanded before
explore_step_revisiting(call, st) ==
    IF st.queue # <<>> /\ Len(st.found_segments) < max_depth
    THEN LET current_coord == Head(st.queue)[1]
             depth == Head(st.queue)[2]
             popped == [st EXCEPT !.queue = Tail(@)]
         IN IF depth >= max_depth
            THEN popped
            ELSE LET marked == [popped EXCEPT
                                   !.visited_coords = @ \cup {current_coord},
                                   !.expanded = Append(@, <<current_coord, depth>>)]
                 IN IF current_coord \in DOMAIN call.G.adj
                    THEN for_neighbors(call, current_coord, depth, 1, marked)
                    ELSE marked
    ELSE [st EXCEPT !.returned = TRUE, !.node_id = None]

\* explore_direction(): one pass of the while loop, or the return after it
explore_step(call, st) ==
    IF st.queue # <<>> /\ Len(st.found_segments) < max_depth
    THEN LET current_coord == Head(st.queue)[1]
             depth == Head(st.queue)[2]
             popped == [st EXCEPT !.queue = Tail(@)]
         IN IF current_coord \in st.visited_coords \/ depth >= max_depth
            THEN popped
            ELSE LET marked == [popped EXCEPT
                                   !.visited_coords = @ \cup {current_coord},
                                   !.expanded = Append(@, <<current_coord, depth>>)]
                 IN IF current_coord \in DOMAIN call.G.adj
                    THEN for_neighbors(call, current_coord, depth, 1, marked)
                    ELSE marked
    ELSE [st EXCEPT !.returned = TRUE, !.node_id = None]

\* the element_nr that names the start before the end in every case
element_nr_of_start_first(beginnt_bei_vp, endet_bei_vp, element_counter) ==
    IF Truthy(beginnt_bei_vp) /\ Truthy(endet_bei_vp)
    THEN Val(beginnt_bei_vp) \o "_" \o Val(endet_bei_vp) \o ".01"
    ELSE IF Truthy(beginnt_bei_vp)
    THEN Val(beginnt_bei_vp) \o "_UNKNOWN.01"
    ELSE IF Truthy(endet_bei_vp)
    THEN Val(endet_bei_vp) \o "_UNKNOWN.01"
    ELSE "UNKNOWN_UNKNOWN_" \o Format03d(element_counter) \o ".01"

\* assign_element_numbers(): the element_nr of the two connection points
element_nr_of(beginnt_bei_vp, endet_bei_vp, element_counter) ==
    IF Truthy(beginnt_bei_vp) /\ Truthy(endet_bei_vp)
    THEN Val(beginnt_bei_vp) \o "_" \o Val(endet_bei_vp) \o ".01"
    ELSE IF Truthy(beginnt_bei_vp)
    THEN Val(beginnt_bei_vp) \o "_UNKNOWN.01"
    ELSE IF Truthy(endet_bei_vp)
    THEN "UNKNOWN_" \o Val(endet_bei_vp) \o ".01"
    ELSE "UNKNOWN_UNKNOWN_" \o Format03d(element_counter) \o ".01"

\* the arguments of the call of explore_direction
ExploreCall ==
    [G |-> elem.G, exclude_idx |-> elem.idx, nodes_gdf |-> elem.nodes_gdf,
     processed_segments |-> elem.processed_segments]

\* the variables assign_element_numbers() leaves alone
elem_others == <<gdf_in, translated, retranslated, osm, net_segmented, seg_idx,
                 snapped_records, out_gdf, result_gdf, layers, net, combined_gdf,
                 pool, log_candidates, disk, exit_status, manual, previous_records,
                 matcher, edges_frame>>

\* assign_element_numbers(): the copy with the new columns and the graph
StartAssignment ==
    /\ pc = "element_nr"
    /\ elem' = [rvn_gdf |-> elem.rvn_gdf,
                nodes_gdf |-> elem.nodes_gdf,
                result_gdf |-> [i \in 1..Len(elem.rvn_gdf) |->
                                   With(With(With(elem.rvn_gdf[i],
                                        "beginnt_bei_vp", None),
                                        "endet_bei_vp", None),
                                        "element_nr", None)],
                G |-> create_network_graph(elem.rvn_gdf),
                processed_segments |-> {},
                element_counter |-> 1,
                idx |-> 0,
                start_node_id |-> None,
                end_node_id |-> None,
                connected_segments |-> <<>>,
                beginnt_bei_vp |-> None,
                endet_bei_vp |-> None,
                explore |-> StartExplore(0),
                assigned_in |-> [i \in 1..Len(elem.rvn_gdf) |-> -1]]
    /\ pc' = "for_idx"
    /\ UNCHANGED elem_others

\* the head of the for loop and the search at the two ends of the segment
NextSegment ==
    /\ pc = "for_idx"
    /\ IF elem.idx >= Len(elem.result_gdf)
       THEN /\ pc' = "returned"
            /\ UNCHANGED elem
       ELSE IF elem.idx \in elem.processed_segments
       THEN /\ elem' = [elem EXCEPT !.idx = @ + 1]
            /\ UNCHANGED pc
       ELSE LET ends == get_line_endpoints(elem.rvn_gdf[elem.idx + 1]["geometry"])
                start_node_id == find_node_at_point(ends.start_point, elem.nodes_gdf)
                end_node_id == find_node_at_point(ends.end_point, elem.nodes_gdf)
            IN /\ elem' = [elem EXCEPT
                              !.start_node_id = start_node_id,
                              !.end_node_id = end_node_id,
                              !.connected_segments = <<elem.idx>>,
                              !.beginnt_bei_vp = start_node_id,
                              !.endet_bei_vp = end_node_id,
                              !.explore = IF ~Truthy(start_node_id)
                                          THEN StartExplore(ends.start_point)
                                          ELSE StartExplore(ends.end_point)]
               /\ pc' = IF ~Truthy(start_node_id) THEN "backward"
                        ELSE IF ~Truthy(end_node_id) THEN "forward"
                        ELSE "assign"
    /\ UNCHANGED elem_others

\* explore_direction(): one pass of its while loop
ExploreStep ==
    /\ pc \in {"backward", "forward"}
    /\ ~elem.explore.returned
    /\ elem' = [elem EXCEPT !.explore = explore_step(ExploreCall, @)]
    /\ UNCHANGED pc
    /\ UNCHANGED elem_others

\* assign_element_numbers() takes the segments and the node explore_direction
\* has returned
ExploreReturn ==
    /\ pc \in {"backward", "forward"}
    /\ elem.explore.returned
    /\ LET ends == get_line_endpoints(elem.rvn_gdf[elem.idx + 1]["geometry"])
           extended == elem.connected_segments \o elem.explore.found_segments
       IN IF pc = "backward"
          THEN /\ elem' = [elem EXCEPT
                              !.connected_segments = extended,
                              !.beginnt_bei_vp = elem.explore.node_id,
                              !.explore = StartExplore(ends.end_point)]
               /\ pc' = IF ~Truthy(elem.end_node_id) THEN "forward" ELSE "assign"
          ELSE /\ elem' = [elem EXCEPT
                              !.connected_segments = extended,
                              !.endet_bei_vp = elem.explore.node_id]
               /\ pc' = "assign"
    /\ UNCHANGED elem_others

\* the element_nr and its assignment to all connected segments
AssignElementNr ==
    /\ pc = "assign"
    /\ LET element_nr == element_nr_of(elem.beginnt_bei_vp, elem.endet_bei_vp,
                                       elem.element_counter)
           connected == {segment_idx \in Range(elem.connected_segments) :
                            segment_idx < Len(elem.result_gdf)}
       IN elem' = [elem EXCEPT
                      !.result_gdf =
                          [i \in 1..Len(@) |->
                              IF i - 1 \in connected
                              THEN With(With(With(@[i],
                                       "beginnt_bei_vp", elem.beginnt_bei_vp),
                                       "endet_bei_vp", elem.endet_bei_vp),
                                       "element_nr", Some(element_nr))
                              ELSE @[i]],
                      !.processed_segments = @ \cup connected,
                      !.assigned_in = [i \in DOMAIN @ |->
                                          IF i - 1 \in connected THEN elem.idx ELSE @[i]],
                      !.element_counter =
                          IF Truthy(elem.beginnt_bei_vp) \/ Truthy(elem.endet_bei_vp)
                          THEN @ ELSE @ + 1,
                      !.idx = @ + 1]
    /\ pc' = "for_idx"
    /\ UNCHANGED elem_others

\* the coordinates of the line ends, in decimetres
Coords == {0, 100, 200}

MaxNetEdges == 3
MaxChain == 52

Knotenpunkt(geometry, id) == ("geometry" :> geometry) @@ ("Knotenpunkt-ID" :> Some(id))

\* the nodes: one near the first coordinate, two near the second, the one
\* further away first, and one outside the tolerance of the third
Knotenpunkte ==
    << Knotenpunkt(4, "45460003"), Knotenpunkt(92, "45460015"),
       Knotenpunkt(103, "45460020"), Knotenpunkt(215, "45460027") >>

\* a network without any node: segment after segment in one line
ChainNetwork ==
    [i \in 1..MaxChain |-> [geometry |-> <<1000 + 100 * (i - 1), 1000 + 100 * i>>]]

\* the networks with the nodes of one of the masks, and the chain
InitNetworks(masks) ==
    /\ pc = "element_nr"
    /\ \/ \E lines \in SeqsUpTo(Coords \X Coords, MaxNetEdges), mask \in masks :
             elem = [rvn_gdf |-> [i \in 1..Len(lines) |-> [geometry |-> lines[i]]],
                     nodes_gdf |-> Masked(Knotenpunkte, mask)]
       \/ elem = [rvn_gdf |-> ChainNetwork, nodes_gdf |-> <<>>]
    /\ gdf_in = NoFiles
    /\ translated = NoFiles
    /\ retranslated = NoFiles
    /\ osm = <<>>
    /\ net = <<>>
    /\ net_segmented = <<>>
    /\ seg_idx = 0
    /\ snapped_records = <<>>
    /\ out_gdf = <<>>
    /\ result_gdf = <<>>
    /\ layers = <<>>
    /\ combined_gdf = <<>>
    /\ pool = IdlePool
    /\ log_candidates = FALSE
    /\ disk = NoCache
    /\ exit_status = -1
    /\ manual = NoMatching
    /\ previous_records = <<>>
    /\ matcher = NoMatcher
    /\ edges_frame = <<>>

InitElement == InitNetworks(SUBSET (1..Len(Knotenpunkte)))

\* no node, the node near the first coordinate, all nodes
InitFewNodes == InitNetworks({{}, {1}, 1..Len(Knotenpunkte)})

NextElement ==
    \/ StartAssignment
    \/ NextSegment
    \/ ExploreStep
    \/ ExploreReturn
    \/ AssignElementNr

SpecElement == InitElement /\ [][NextElement]_vars

\* the script runs on until it has returned
FairElement == InitFewNodes /\ [][NextElement]_vars /\ WF_vars(NextElement)


-----------------------------------------------------------------------------
(* The element numbers                                                     *)

\* the element_nr of the row is the one its own two connection points give
Formed(row) ==
    LET from == row["beginnt_bei_vp"]
        to == row["endet_bei_vp"]
        element_nr == row["element_nr"]
    IN /\ element_nr # None
       /\ from # None /\ to # None
              => element_nr = Some(Val(from) \o "_" \o Val(to) \o ".01")
       /\ from # None /\ to = None
              => element_nr = Some(Val(from) \o "_UNKNOWN.01")
       /\ from = None /\ to # None
              => element_nr = Some("UNKNOWN_" \o Val(to) \o ".01")
       /\ from = None /\ to = None
              => \E N \in 1..Len(elem.result_gdf) :
                     element_nr = Some("UNKNOWN_UNKNOWN_" \o Format03d(N) \o ".01")

Unresolved(row) == row["beginnt_bei_vp"] = None /\ row["endet_bei_vp"] = None

\* two rows without any node share their number only if one iteration has
\* assigned both
CounterUnused ==
    \A i, j \in 1..Len(elem.result_gdf) :
        /\ Unresolved(elem.result_gdf[i])
        /\ Unresolved(elem.result_gdf[j])
        /\ elem.result_gdf[i]["element_nr"] = elem.result_gdf[j]["element_nr"]
        => elem.assigned_in[i] = elem.assigned_in[j]

\* a row that has its element_nr keeps all its values
AssignedOnce ==
    pc # "element_nr" =>
        \A i \in 1..Len(elem.result_gdf) :
            elem.result_gdf[i]["element_nr"] # None
            => elem'.result_gdf[i] = elem.result_gdf[i]

\* C26: element_nr formation.  After assign_element_numbers every edge has
\* a non-null element_nr; it is '{from}_{to}.01', '{from}_UNKNOWN.01',
\* 'UNKNOWN_{to}.01' or 'UNKNOWN_UNKNOWN_{N:03d}.01' according to which of
\* the edge's own beginnt_bei_vp and endet_bei_vp are set, N being a counter
\* value no other unresolved group has; and an edge that has been assigned
\* is not assigned again by a later iteration.
C26_ElementNrFormation ==
    /\ [](pc = "returned" =>
            /\ \A i \in 1..Len(elem.result_gdf) : Formed(elem.result_gdf[i])
            /\ CounterUnused)
    /\ [][AssignedOnce]_vars

\* a network of two unresolved groups, one of them of more than one segment
C26_Witness ==
    /\ pc = "returned"
    /\ \E i, j \in 1..Len(elem.result_gdf) :
          /\ i # j
          /\ elem.assigned_in[i] = elem.assigned_in[j]
          /\ Unresolved(elem.result_gdf[i])
    /\ \E i \in 1..Len(elem.result_gdf) :
          elem.result_gdf[i]["element_nr"] = Some("UNKNOWN_UNKNOWN_002.01")
    /\ \E i \in 1..Len(elem.result_gdf) :
          elem.result_gdf[i]["element_nr"] = Some("UNKNOWN_UNKNOWN_001.01")

\* explore_direction is running
Exploring == pc \in {"backward", "forward"}

\* the coordinates the search has reached: the neighbours of those expanded
ReachedCoords ==
    UNION {Range(elem.G.adj[elem.explore.expanded[i][1]]) :
              i \in {k \in 1..Len(elem.explore.expanded) :
                        elem.explore.expanded[k][1] \in DOMAIN elem.G.adj}}

\* no coordinate is expanded twice and none at a depth beyond max_depth
ExpandedOnce ==
    Exploring =>
        /\ \A i, j \in 1..Len(elem.explore.expanded) :
              i # j => elem.explore.expanded[i][1] # elem.explore.expanded[j][1]
        /\ \A i \in 1..Len(elem.explore.expanded) :
              elem.explore.expanded[i][2] <= max_depth

\* what explore_direction returns: segments other than the starting one and
\* the processed ones, and the ID of a node only if that node lies within
\* the tolerance of a coordinate reached
ReturnedValues ==
    Exploring /\ elem.explore.returned =>
        /\ \A k \in 1..Len(elem.explore.found_segments) :
              /\ elem.explore.found_segments[k] # elem.idx
              /\ elem.explore.found_segments[k] \notin elem.processed_segments
        /\ elem.explore.node_id # None =>
              \E c \in ReachedCoords, n \in 1..Len(elem.nodes_gdf) :
                  /\ distance(elem.nodes_gdf[n]["geometry"], c) <= tolerance
                  /\ elem.explore.node_id = elem.nodes_gdf[n]["Knotenpunkt-ID"]

\* C27: Bounded traversal terminates.  On every network, with cycles,
\* parallel edges or no named node, explore_direction returns; it expands
\* each coordinate at most once and none beyond depth 50, returns neither
\* the starting edge nor a processed edge among the segments, and returns a
\* node ID only if a named node lies within the tolerance of a coordinate
\* it has reached.
C27_BoundedTraversalTerminates ==
    /\ (pc = "backward") ~> (pc # "backward")
    /\ (pc = "forward") ~> (pc # "forward")
    /\ []ExpandedOnce
    /\ []ReturnedValues

\* the search has stopped at max_depth segments without a node
C27_Witness ==
    /\ Exploring
    /\ elem.explore.returned
    /\ Len(elem.explore.found_segments) = max_depth
    /\ elem.explore.node_id = None


-----------------------------------------------------------------------------
(* The obligation to use the cycleway                                      *)

\* the signs a traffic_sign value lists between its commas
SignsListed(value) ==
    LET parts == Split(Strip(value), ",")
    IN {Strip(parts[i]) : i \in 1..Len(parts)}

\* the listed sign is the sign DE:number, with or without a variant suffix,
\* and not a sign whose number only begins with these digits
IsSign(part, number) ==
    /\ StartsWith(part, "DE:" \o number)
    /\ \/ Len(part) = Len(number) + 3
       \/ ~IsChar(CharAt(part, Len(number) + 4), Digits)

Obligatory(cell) ==
    /\ notna(cell)
    /\ \E part \in SignsListed(Val(cell)) : \E number \in {"237", "240", "241"} :
           IsSign(part, number)

\* C28: pflicht rule.  determine_pflicht is true for a bikelanes row exactly
\* if its traffic_sign lists one of the signs DE:237, DE:240, DE:241; it is
\* false for a missing value, for other signs, for sign numbers that only
\* begin with 237, 240 or 241, for numbers without the DE: prefix, and for
\* every streets or paths row.
C28_PflichtRule ==
    pc # "translate" =>
        \A s \in Range(DataSources) : \A i \in 1..Len(translated[s]) :
            translated[s][i]["pflicht"] =
                Some(s = "bikelanes"
                     /\ Obligatory(Get(gdf_in[s][i], "traffic_sign", None)))


-----------------------------------------------------------------------------
(* The physical protection                                                 *)

Protected(row) == Get(row, "category", None) = Some("cyclewayOnHighwayProtected")

\* on the side the markings include a barred area, the separation is "no"
\* and the traffic mode is not parking
BarredAreaOnly(row, side) ==
    LET markings == Get(row, "marking_" \o side, None)
        traffic_mode == Get(row, "traffic_mode_" \o side, None)
    IN /\ notna(markings) /\ Contains(Val(markings), "barred_area")
       /\ Get(row, "separation_" \o side, None) = Some("no")
       /\ traffic_mode # Some("parking")

\* every row of a category other than cyclewayOnHighwayProtected is "Ohne"
OhneUnlessProtected ==
    pc # "translate" =>
        \A s \in Range(DataSources) : \A i \in 1..Len(translated[s]) :
            ~Protected(gdf_in[s][i]) => translated[s][i]["protek"] = Some("Ohne")

\* C29: protek rule for barred areas.  determine_protek returns 'Ohne' for
\* every row whose category is not cyclewayOnHighwayProtected, and 'nur
\* Sperrfläche' for a cyclewayOnHighwayProtected row that has on one side a
\* barred area among the markings, the separation 'no' and a traffic mode
\* other than parking.
C29_ProtekBarredArea ==
    /\ OhneUnlessProtected
    /\ pc # "translate" =>
        \A s \in Range(DataSources) : \A i \in 1..Len(translated[s]) :
            /\ Protected(gdf_in[s][i])
            /\ \E side \in {"left", "right"} : BarredAreaOnly(gdf_in[s][i], side)
            => translated[s][i]["protek"] = Some("nur Sperrfläche")


-----------------------------------------------------------------------------
(* The combination of collections that share ways                          *)

MaxPerSource == 2

\* a row of the data source as TILDA exports it; the paths are unpaved
SourceRow(data_source, id) ==
    With(IF data_source = "bikelanes" THEN BikelaneRow
         ELSE IF data_source = "streets" THEN StreetRow
         ELSE With(StreetRow, "surface", Some("gravel")),
         "id", Some(id))

InitCombine ==
    /\ pc = "translate"
    /\ \E ids \in [Range(DataSources) ->
                      {<<>>} \cup SeqsUpTo({"way/1", "way/2"}, MaxPerSource)] :
          gdf_in = [s \in Range(DataSources) |->
                       [i \in 1..Len(ids[s]) |-> SourceRow(s, ids[s][i])]]
    /\ translated = NoFiles
    /\ retranslated = NoFiles
    /\ osm = <<>>
    /\ net_segmented = <<>>
    /\ seg_idx = 0
    /\ snapped_records = <<>>
    /\ out_gdf = <<>>
    /\ result_gdf = <<>>
    /\ layers = <<>>
    /\ net = net_segmented
    /\ InitRun

NextCombine == Translate \/ Combine

SpecCombine == InitCombine /\ [][NextCombine]_vars

\* the places of the data sources in the order of the combination
Place(data_source) == CHOOSE k \in 1..Len(DataSources) : DataSources[k] = data_source

\* the collection has a row of the way
Holds(data_source, id) ==
    \E k \in 1..Len(translated[data_source]) : translated[data_source][k]["tilda_id"] = id

\* the row is a row of the collection, tagged with the name of the collection
TaggedRowOf(row, data_source) ==
    /\ row["data_source"] = Some(data_source)
    /\ \E k \in 1..Len(translated[data_source]) :
          \A c \in DOMAIN translated[data_source][k] :
              row[c] = translated[data_source][k][c]

\* C30: Combine step.  The combined collection holds every way ID at most
\* once, every row is a row of one of the collections tagged with that
\* collection's data_source, and of a way that several collections hold the
\* row of the earliest collection is kept, bikelanes before streets before
\* paths.
C30_CombineStep ==
    pc = "snap" =>
        /\ \A i, j \in 1..Len(osm) : osm[i]["tilda_id"] = osm[j]["tilda_id"] => i = j
        /\ \A i \in 1..Len(osm) :
              \E s \in Range(DataSources) :
                  /\ TaggedRowOf(osm[i], s)
                  /\ \A earlier \in Range(DataSources) :
                        Place(earlier) < Place(s) => ~Holds(earlier, osm[i]["tilda_id"])

\* one way is in all three collections, another in the streets and the paths
C30_Witness ==
    /\ pc = "snap"
    /\ \A s \in Range(DataSources) : Holds(s, Some("way/1"))
    /\ ~Holds("bikelanes", Some("way/2"))
    /\ Holds("streets", Some("way/2"))
    /\ Holds("paths", Some("way/2"))
    /\ Len(osm) = 2

=============================================================================
